---- MODULE Spec2Model ----
(***************************************************************************)
(* A model of the crypto package of goRailsYourself: PKCS7 padding, the    *)
(* message serializers, MessageVerifier (HMAC signed tokens) and           *)
(* MessageEncryptor (AES-CBC and AES-GCM tokens).                          *)
(*                                                                         *)
(* Texts, keys and tokens are sequences of byte values (0..255).  The      *)
(* primitives of the Go standard library the package calls (AES, GCM,      *)
(* HMAC) are modelled by small keyed functions with the same interface     *)
(* and the same algebra (keyed, invertible where the primitive is, fixed   *)
(* output sizes); base64, hex, the padding, the token formats and all the  *)
(* control flow of the package are modelled as written.                    *)
(***************************************************************************)
EXTENDS Integers, Sequences, FiniteSets, TLC

VARIABLES
    crypt,      \* the MessageEncryptor under test (its five fields)
    mv,         \* a stand-alone MessageVerifier
    token,      \* the token in flight (last one produced, possibly altered)
    tokKind,    \* how the token in flight came to be
    tokValue,   \* the value the token in flight was produced from
    tokInner,   \* what Encrypt returned inside the last EncryptAndSign
    op,         \* the last operation called
    out,        \* the string the last call returned
    err,        \* the error the last call returned ("nil" for none)
    target,     \* the target of the last decoding call, after the call
    trace,      \* the steps the last call performed, in order
    kg,         \* a KeyGenerator (Secret, Iterations, cache)
    kgCall,     \* the last call on it: salt, keySize, the generator it found
    calls       \* the goroutines inside CacheGenerate: statement, locals

vars == <<crypt, mv, token, tokKind, tokValue, tokInner,
          op, out, err, target, trace, kg, kgCall, calls>>

-----------------------------------------------------------------------------
(* Bounds of the model *)

\* plaintext lengths explored lie around the first MaxBlocks block boundaries
MaxBlocks == 1
\* tokens made from the values "", "a", ... of at most this length are
\* altered byte by byte
MaxTamperLen == 0

-----------------------------------------------------------------------------
(* Bytes and texts *)

BlockSize == 16

Bit(a, k) == (a \div (2 ^ k)) % 2

\* a XOR b on 8-bit values
Xor(a, b) ==
    LET x(k) == ((Bit(a, k) + Bit(b, k)) % 2) * (2 ^ k)
    IN  x(0) + x(1) + x(2) + x(3) + x(4) + x(5) + x(6) + x(7)

Rep(n, b) == [i \in 1..n |-> b]

Take(s, n) == SubSeq(s, 1, n)

Drop(s, n) == SubSeq(s, n + 1, Len(s))

Reverse(s) == [i \in 1..Len(s) |-> s[Len(s) + 1 - i]]

\* the least element of a non-empty set of integers
Min(S) == CHOOSE x \in S : \A y \in S : x <= y

\* the concatenation of a sequence of sequences, by halves
RECURSIVE Flatten(_)
Flatten(ss) ==
    IF ss = <<>> THEN <<>>
    ELSE IF Len(ss) = 1 THEN ss[1]
    ELSE Flatten(Take(ss, Len(ss) \div 2)) \o Flatten(Drop(ss, Len(ss) \div 2))

\* how many leading elements of s pass before the first one in the set stop
Run(s, stop) == Min({i \in 1..Len(s) : s[i] \in stop} \cup {Len(s) + 1}) - 1

\* the "--" that joins the segments of every token
Delim == <<45, 45>>

\* first index at or after i at which Delim occurs in s, 0 when it does not
IndexFrom(s, i) ==
    LET hits == {j \in i..(Len(s) - 1) : s[j] = 45 /\ s[j + 1] = 45}
    IN  IF hits = {} THEN 0 ELSE Min(hits)

\* strings.Split(s, "--"): the segments between non-overlapping delimiters
RECURSIVE Split(_)
Split(s) ==
    LET i == IndexFrom(s, 1)
    IN  IF i = 0 THEN <<s>>
        ELSE <<Take(s, i - 1)>> \o Split(Drop(s, i + 1))

\* bytes.SplitN(s, "--", n): at most n segments, the last one unsplit
RECURSIVE SplitN(_, _)
SplitN(s, n) ==
    LET i == IndexFrom(s, 1)
    IN  IF n <= 1 \/ i = 0 THEN <<s>>
        ELSE <<Take(s, i - 1)>> \o SplitN(Drop(s, i + 1), n - 1)

-----------------------------------------------------------------------------
(* encoding/hex and encoding/base64 (StdEncoding) *)

HexDigit(n) == IF n < 10 THEN 48 + n ELSE 87 + n

\* hex.EncodeToString: two lower-case digits per byte
HexEncode(bs) ==
    [i \in 1..(2 * Len(bs)) |->
        LET b == bs[(i + 1) \div 2]
        IN  IF i % 2 = 1 THEN HexDigit(b \div 16) ELSE HexDigit(b % 16)]

B64Char(n) ==
    IF n < 26 THEN 65 + n
    ELSE IF n < 52 THEN 71 + n
    ELSE IF n < 62 THEN n - 4
    ELSE IF n = 62 THEN 43 ELSE 47

\* the decode map: the 6-bit value of a character, -1 outside the alphabet
B64Val(c) ==
    IF c >= 65 /\ c <= 90 THEN c - 65
    ELSE IF c >= 97 /\ c <= 122 THEN c - 71
    ELSE IF c >= 48 /\ c <= 57 THEN c + 4
    ELSE IF c = 43 THEN 62
    ELSE IF c = 47 THEN 63
    ELSE -1

\* one group of 1..3 bytes to 4 characters, '=' padded
B64Group(g) ==
    LET b1 == g[1]
        b2 == IF Len(g) >= 2 THEN g[2] ELSE 0
        b3 == IF Len(g) >= 3 THEN g[3] ELSE 0
        c1 == B64Char(b1 \div 4)
        c2 == B64Char((b1 % 4) * 16 + b2 \div 16)
        c3 == IF Len(g) >= 2 THEN B64Char((b2 % 16) * 4 + b3 \div 64) ELSE 61
        c4 == IF Len(g) >= 3 THEN B64Char(b3 % 64) ELSE 61
    IN  <<c1, c2, c3, c4>>

\* base64.StdEncoding.EncodeToString
Base64Encode(bs) ==
    LET n == (Len(bs) + 2) \div 3
        group(q) == SubSeq(bs, 3 * q - 2,
                           IF 3 * q <= Len(bs) THEN 3 * q ELSE Len(bs))
    IN  [j \in 1..(4 * n) |-> B64Group(group((j + 3) \div 4))[((j - 1) % 4) + 1]]

\* One quantum of decodeQuantum on the characters left (newlines already
\* skipped): [n |-> bytes written, ok |-> no CorruptInputError, rest]
B64Quantum(s) ==
    LET v(i) == B64Val(s[i])
        bytes3 == <<v(1) * 4 + v(2) \div 16,
                    (v(2) % 16) * 16 + v(3) \div 4,
                    (v(3) % 4) * 64 + v(4)>>
        bad == [bytes |-> <<>>, ok |-> FALSE, rest |-> <<>>]
    IN  IF Len(s) < 2 \/ v(1) < 0 \/ v(2) < 0 THEN bad
        ELSE IF Len(s) < 3 THEN bad
        ELSE IF s[3] = 61
             THEN \* "==" is expected, then the end of the input
                  IF Len(s) < 4 \/ s[4] # 61 THEN bad
                  ELSE [bytes |-> <<v(1) * 4 + v(2) \div 16>>,
                        ok |-> Len(s) = 4, rest |-> <<>>]
        ELSE IF v(3) < 0 THEN bad
        ELSE IF Len(s) < 4 THEN bad
        ELSE IF s[4] = 61
             THEN [bytes |-> <<v(1) * 4 + v(2) \div 16,
                               (v(2) % 16) * 16 + v(3) \div 4>>,
                   ok |-> Len(s) = 4, rest |-> <<>>]
        ELSE IF v(4) < 0 THEN bad
        ELSE [bytes |-> bytes3, ok |-> TRUE, rest |-> Drop(s, 4)]

\* the decode loop: quanta are decoded in order up to the first one that is
\* corrupt or ends the input; every quantum before it wrote three bytes
B64Quanta(s) ==
    LET n == (Len(s) + 3) \div 4
        quantum(q) == B64Quantum(Drop(s, 4 * (q - 1)))
        stops == {q \in 1..n : ~quantum(q).ok \/ quantum(q).rest = <<>>}
        last == Min(stops)
    IN  IF s = <<>> THEN [bytes |-> <<>>, ok |-> TRUE]
        ELSE [bytes |-> [i \in 1..(3 * (last - 1)) |->
                            quantum((i + 2) \div 3).bytes[((i - 1) % 3) + 1]]
                        \o quantum(last).bytes,
              ok |-> quantum(last).ok]

\* base64.StdEncoding.DecodeString: the bytes decoded before the first
\* corrupt quantum, and whether the whole input was valid.  '\r' and '\n'
\* are skipped.
Base64Decode(s) == B64Quanta(SelectSeq(s, LAMBDA c : c # 10 /\ c # 13))

-----------------------------------------------------------------------------
(* The serializers: JsonMsgSerializer, XMLMsgSerializer, NullMsgSerializer. *)
(* Values are Go strings (byte sequences below 128); the target of a       *)
(* decoding call is a string variable.                                     *)

Serializers == {"json", "xml", "null"}

IsWhite(c) == c \in {32, 9, 10, 13}

TrimLeftWhite(s) ==
    Drop(s, Min({i \in 1..Len(s) : ~IsWhite(s[i])} \cup {Len(s) + 1}) - 1)

TrimWhite(s) == Reverse(TrimLeftWhite(Reverse(TrimLeftWhite(s))))

HexVal(c) ==
    IF c >= 48 /\ c <= 57 THEN c - 48
    ELSE IF c >= 97 /\ c <= 102 THEN c - 87
    ELSE IF c >= 65 /\ c <= 70 THEN c - 55
    ELSE -1

\* json.Marshal of one byte of a string
JsonEscape(b) ==
    IF b = 34 \/ b = 92 THEN <<92, b>>
    ELSE IF b = 10 THEN <<92, 110>>
    ELSE IF b = 13 THEN <<92, 114>>
    ELSE IF b = 9 THEN <<92, 116>>
    ELSE IF b < 32 \/ b \in {60, 62, 38}
         THEN <<92, 117, 48, 48, HexDigit(b \div 16), HexDigit(b % 16)>>
    ELSE <<b>>

\* the body of a JSON string literal, unquoted: [ok, val]
RECURSIVE JsonUnquote(_)
JsonUnquote(s) ==
    IF s = <<>> THEN [ok |-> TRUE, val |-> <<>>]
    ELSE IF s[1] < 32 \/ s[1] = 34 \/ s[1] > 127 THEN [ok |-> FALSE, val |-> <<>>]
    ELSE IF s[1] # 92
         THEN LET k == Run(s, {c \in 0..255 : c < 32 \/ c = 34 \/ c > 127 \/ c = 92})
                  r == JsonUnquote(Drop(s, k))
              IN  [ok |-> r.ok, val |-> Take(s, k) \o r.val]
    ELSE IF Len(s) < 2 THEN [ok |-> FALSE, val |-> <<>>]
    ELSE IF s[2] = 117
         THEN IF Len(s) < 6 \/ \E i \in 3..6 : HexVal(s[i]) < 0
                 \/ s[3] # 48 \/ s[4] # 48 \/ HexVal(s[5]) > 7
              THEN [ok |-> FALSE, val |-> <<>>]
              ELSE LET r == JsonUnquote(Drop(s, 6))
                   IN  [ok |-> r.ok,
                        val |-> <<HexVal(s[5]) * 16 + HexVal(s[6])>> \o r.val]
    ELSE LET c == CASE s[2] = 34 -> 34 [] s[2] = 92 -> 92 [] s[2] = 47 -> 47
                    [] s[2] = 110 -> 10 [] s[2] = 114 -> 13 [] s[2] = 116 -> 9
                    [] s[2] = 98 -> 8 [] s[2] = 102 -> 12 [] OTHER -> -1
             r == JsonUnquote(Drop(s, 2))
         IN  IF c < 0 THEN [ok |-> FALSE, val |-> <<>>]
             ELSE [ok |-> r.ok, val |-> <<c>> \o r.val]

\* JsonMsgSerializer.Serialize
JsonSerialize(v) ==
    [text |-> <<34>> \o Flatten([i \in 1..Len(v) |-> JsonEscape(v[i])]) \o <<34>>,
     err |-> "nil"]

\* JsonMsgSerializer.Unserialize into a string target
JsonUnserialize(data, tgt) ==
    LET s == TrimWhite(data)
        body == JsonUnquote(SubSeq(s, 2, Len(s) - 1))
    IN  IF s = <<110, 117, 108, 108>> THEN [target |-> tgt, err |-> "nil"]
        ELSE IF Len(s) >= 2 /\ s[1] = 34 /\ s[Len(s)] = 34 /\ body.ok
             THEN [target |-> body.val, err |-> "nil"]
        ELSE [target |-> tgt, err |-> "json: cannot unmarshal"]

XmlOpen == <<60, 115, 116, 114, 105, 110, 103, 62>>

XmlClose == <<60, 47, 115, 116, 114, 105, 110, 103, 62>>

\* the character references xml.EscapeText writes, by byte
XmlEntity(b) ==
    CASE b = 34 -> <<38, 35, 51, 52, 59>>
      [] b = 39 -> <<38, 35, 51, 57, 59>>
      [] b = 38 -> <<38, 97, 109, 112, 59>>
      [] b = 60 -> <<38, 108, 116, 59>>
      [] b = 62 -> <<38, 103, 116, 59>>
      [] b = 9  -> <<38, 35, 120, 57, 59>>
      [] b = 10 -> <<38, 35, 120, 65, 59>>
      [] b = 13 -> <<38, 35, 120, 68, 59>>
      [] OTHER  -> <<>>

\* xml.EscapeText of one byte; a control character outside the XML
\* character range is replaced by U+FFFD
XmlEscape(b) ==
    IF XmlEntity(b) # <<>> THEN XmlEntity(b)
    ELSE IF b < 32 THEN <<239, 191, 189>>
    ELSE <<b>>

IsPrefix(p, s) == Len(p) <= Len(s) /\ Take(s, Len(p)) = p

\* character data with its references resolved: [ok, val]
RECURSIVE XmlUnescape(_)
XmlUnescape(s) ==
    IF s = <<>> THEN [ok |-> TRUE, val |-> <<>>]
    ELSE IF s[1] = 38
         THEN LET hit == {b \in {34, 39, 38, 60, 62, 9, 10, 13} :
                              IsPrefix(XmlEntity(b), s)}
              IN  IF hit = {} THEN [ok |-> FALSE, val |-> <<>>]
                  ELSE LET b == CHOOSE x \in hit : TRUE
                           r == XmlUnescape(Drop(s, Len(XmlEntity(b))))
                       IN  [ok |-> r.ok, val |-> <<b>> \o r.val]
    ELSE IF s[1] = 60 \/ (s[1] < 32 /\ s[1] \notin {9, 10, 13})
         THEN [ok |-> FALSE, val |-> <<>>]
    ELSE LET k == Run(s, {c \in 0..255 : c = 38 \/ c = 60
                                            \/ (c < 32 /\ c \notin {9, 10, 13})})
             r == XmlUnescape(Drop(s, k))
         IN  [ok |-> r.ok, val |-> Take(s, k) \o r.val]

\* XMLMsgSerializer.Serialize
XmlSerialize(v) ==
    [text |-> XmlOpen \o Flatten([i \in 1..Len(v) |-> XmlEscape(v[i])]) \o XmlClose,
     err |-> "nil"]

\* XMLMsgSerializer.Unserialize into a string target
XmlUnserialize(data, tgt) ==
    LET s == TrimWhite(data)
        n == Len(s)
        framed == n >= Len(XmlOpen) + Len(XmlClose)
                  /\ IsPrefix(XmlOpen, s)
                  /\ Drop(s, n - Len(XmlClose)) = XmlClose
        body == XmlUnescape(SubSeq(s, Len(XmlOpen) + 1, n - Len(XmlClose)))
    IN  IF framed /\ body.ok THEN [target |-> body.val, err |-> "nil"]
        ELSE [target |-> tgt, err |-> "xml: syntax error"]

\* NullMsgSerializer.Serialize: fmt.Sprint of a string is the string
NullSerialize(v) == [text |-> v, err |-> "nil"]

\* NullMsgSerializer.Unserialize: v.SetString(data), never an error
NullUnserialize(data, tgt) == [target |-> data, err |-> "nil"]

\* MsgSerializer.Serialize, dispatched on the dynamic type
Serialize(ser, v) ==
    CASE ser = "json" -> JsonSerialize(v)
      [] ser = "xml"  -> XmlSerialize(v)
      [] ser = "null" -> NullSerialize(v)

\* MsgSerializer.Unserialize, dispatched on the dynamic type
Unserialize(ser, data, tgt) ==
    CASE ser = "json" -> JsonUnserialize(data, tgt)
      [] ser = "xml"  -> XmlUnserialize(data, tgt)
      [] ser = "null" -> NullUnserialize(data, tgt)

\* the target before every decoding call; no value equals it
Untouched == <<63, 63>>

\* v is serializable by ser: the serializer alone brings it back
Serializable(ser, v) ==
    /\ Serialize(ser, v).err = "nil"
    /\ Unserialize(ser, Serialize(ser, v).text, Untouched) = [target |-> v, err |-> "nil"]

-----------------------------------------------------------------------------
(* PKCS7 padding *)

\* PKCS7Pad: pads to a multiple of 16; nothing is added to an input whose
\* length already is one
PKCS7Pad(data) ==
    LET dataLen == Len(data)
        validLen == IF dataLen % 16 = 0 THEN dataLen
                    ELSE (dataLen \div 16 + 1) * 16
        paddingLen == validLen - dataLen
    IN  data \o Rep(paddingLen, paddingLen)

\* PKCS7Unpad: strips as many bytes as the last byte says when that is
\* below 16.  Indexing an empty input, or slicing before its start, is a
\* run-time panic.
PKCS7Unpad(data) ==
    LET dataLen == Len(data)
        paddingLen == data[dataLen]
    IN  IF dataLen = 0 THEN [data |-> <<>>, panic |-> TRUE]
        ELSE IF paddingLen < 16
             THEN IF paddingLen > dataLen THEN [data |-> <<>>, panic |-> TRUE]
                  ELSE [data |-> Take(data, dataLen - paddingLen), panic |-> FALSE]
        ELSE [data |-> data, panic |-> FALSE]

-----------------------------------------------------------------------------
(* The primitives of the standard library, as keyed functions *)

NonceSize == 12

TagSize == 16

MaxKeyLen == 32

\* aes.NewCipher accepts keys of 16, 24 or 32 bytes
ValidKeySize(k) == Len(k) \in {16, 24, 32}

\* a checksum of s[lo..hi] modulo the prime p: every byte weighted by its
\* position, so that changing one byte or exchanging two changes the sum
RECURSIVE Roll(_, _, _, _, _)
Roll(s, lo, hi, m, p) ==
    IF lo > hi THEN 0
    ELSE IF lo = hi THEN ((s[lo] + 1) * ((lo * m) % p)) % p
    ELSE LET mid == (lo + hi) \div 2
         IN  (Roll(s, lo, mid, m, p) + Roll(s, mid + 1, hi, m, p)) % p

\* A keyed digest of `size` bytes: the stand-in for HMAC (and for the GCM
\* tag).  It is a function of the key, the text and the seed, and its
\* first six bytes carry three independent checksums of all three.
Mac(key, data, seed, size) ==
    LET s  == <<Len(key)>> \o key \o data
        a1 == (Roll(s, 1, Len(s), 257, 65521) + 31 * seed + Len(s)) % 65521
        a2 == (Roll(s, 1, Len(s), 263, 65519) + 37 * seed + Len(s)) % 65519
        a3 == (Roll(s, 1, Len(s), 269, 65497) + 41 * seed + Len(s)) % 65497
    IN  [i \in 1..size |->
            CASE i = 1 -> a1 % 256 [] i = 2 -> a1 \div 256
              [] i = 3 -> a2 % 256 [] i = 4 -> a2 \div 256
              [] i = 5 -> a3 % 256 [] i = 6 -> a3 \div 256
              [] OTHER -> (a1 + i * a2 + i * i * (a3 % 4096)) % 256]

\* the key byte the block cipher adds at position i
RoundKey(k, i) == (k[i] + k[Len(k) + 1 - i]) % 256

\* One block through the block cipher: a keyed permutation of the 16-byte
\* blocks (a rotation by one position, then a keyed substitution)
EncBlock(k, b) ==
    [i \in 1..BlockSize |-> (b[(i % BlockSize) + 1] + RoundKey(k, i)) % 256]

\* the inverse permutation
DecBlock(k, c) ==
    [j \in 1..BlockSize |->
        LET i == IF j = 1 THEN BlockSize ELSE j - 1
        IN  (c[i] + 256 - RoundKey(k, i)) % 256]

XorBlock(a, b) == [i \in 1..BlockSize |-> Xor(a[i], b[i])]

\* cipher.NewCBCEncrypter(block, iv).CryptBlocks on whole blocks
RECURSIVE CBCEncrypt(_, _, _)
CBCEncrypt(k, prev, pt) ==
    IF pt = <<>> THEN <<>>
    ELSE LET c == EncBlock(k, XorBlock(Take(pt, BlockSize), prev))
         IN  c \o CBCEncrypt(k, c, Drop(pt, BlockSize))

\* cipher.NewCBCDecrypter(block, iv).CryptBlocks on whole blocks
RECURSIVE CBCDecrypt(_, _, _)
CBCDecrypt(k, prev, ct) ==
    IF ct = <<>> THEN <<>>
    ELSE LET c == Take(ct, BlockSize)
         IN  XorBlock(DecBlock(k, c), prev) \o CBCDecrypt(k, c, Drop(ct, BlockSize))

\* the counter-mode key stream of GCM
KeyStream(k, nonce, i) ==
    (k[((i - 1) % Len(k)) + 1] + nonce[((i - 1) % NonceSize) + 1] + 7 * i) % 256

GcmCrypt(k, nonce, txt) == [i \in 1..Len(txt) |-> Xor(txt[i], KeyStream(k, nonce, i))]

GcmTag(k, nonce, ct) == Mac(k, nonce \o ct, 99, TagSize)

\* aesgcm.Seal(nil, nonce, plaintext, nil): the ciphertext with the tag
\* appended
GcmSeal(k, nonce, pt) ==
    LET ct == GcmCrypt(k, nonce, pt) IN ct \o GcmTag(k, nonce, ct)

\* aesgcm.Open(nil, nonce, enc, nil): [plain, err]; a nonce of the wrong
\* length is a run-time panic
GcmOpen(k, nonce, enc) ==
    LET n  == Len(enc) - TagSize
        ct == Take(enc, n)
    IN  IF Len(nonce) # NonceSize
        THEN [plain |-> <<>>, err |-> "panic: crypto/cipher: incorrect nonce length given to GCM"]
        ELSE IF n < 0 \/ Drop(enc, n) # GcmTag(k, nonce, ct)
        THEN [plain |-> <<>>, err |-> "cipher: message authentication failed"]
        ELSE [plain |-> GcmCrypt(k, nonce, ct), err |-> "nil"]

Hashers == {"sha1", "sha256", "sha512", "md5"}

\* hash.Hash.Size()
HashSize(h) ==
    CASE h = "sha1" -> 20 [] h = "sha256" -> 32 [] h = "sha512" -> 64 [] h = "md5" -> 16

HashSeed(h) ==
    CASE h = "sha1" -> 100 [] h = "sha256" -> 200 [] h = "sha512" -> 300 [] h = "md5" -> 400

\* hmac.New(hasher, secret), Write(data), Sum(nil)
Hmac(h, secret, data) == Mac(secret, data, HashSeed(h), HashSize(h))

-----------------------------------------------------------------------------
(* MessageVerifier *)

\* a nil *MessageVerifier
NilVerifier == [nil |-> TRUE, secret |-> <<>>, hasher |-> "nil", serializer |-> "nil"]

\* &MessageVerifier{secret, hasher, serializer}; an unset field is the
\* empty secret, the "nil" hasher, the "nil" serializer
NewVerifier(secret, hasher, serializer) ==
    [nil |-> FALSE, secret |-> secret, hasher |-> hasher, serializer |-> serializer]

NilDeref == "panic: invalid memory address or nil pointer dereference"

\* checkInit testing the secret before the serializer and the hasher
checkInitSecretFirst(v) ==
    IF v.nil THEN NilDeref
    ELSE IF v.secret = <<>> THEN "Secret not set"
    ELSE IF v.serializer = "nil" THEN "Serializer not set"
    ELSE IF v.hasher = "nil" THEN "Hasher not set"
    ELSE "nil"

\* MessageVerifier.checkInit
checkInit(v) ==
    IF v.nil THEN NilDeref
    ELSE IF v.serializer = "nil" THEN "Serializer not set"
    ELSE IF v.hasher = "nil" THEN "Hasher not set"
    ELSE IF v.secret = <<>> THEN "Secret not set"
    ELSE "nil"

\* MessageVerifier.IsValid: the error of checkInit, "nil" when valid
IsValid(v) == checkInit(v)

\* "Y U SET NO SECRET???!"
NoSecretDigest ==
    <<89, 32, 85, 32, 83, 69, 84, 32, 78, 79, 32, 83, 69, 67, 82, 69, 84, 63, 63, 63, 33>>

\* MessageVerifier.DigestFor
DigestFor(v, data) ==
    IF v.secret = <<>> THEN NoSecretDigest
    ELSE HexEncode(Hmac(v.hasher, v.secret, data))

\* secureCompare with `res =` for `res |=`: the last byte alone decides
secureCompareLast(strA, strB) ==
    IF Len(strA) # Len(strB) THEN FALSE
    ELSE Len(strA) = 0 \/ Xor(strB[Len(strA)], strA[Len(strA)]) = 0

\* MessageVerifier.secureCompare
secureCompare(strA, strB) ==
    IF Len(strA) # Len(strB) THEN FALSE
    ELSE \A i \in 1..Len(strA) : Xor(strB[i], strA[i]) = 0

\* Generate signing the serialized text instead of its base64 encoding
GenerateSignsText(v, value) ==
    LET sign(text, str) ==
            [out |-> str \o Delim \o DigestFor(v, text), err |-> "nil",
             trace |-> <<"checkInit", "Serialize", "base64.Encode", "DigestFor">>]
        encode(data) ==
            IF data.err # "nil"
            THEN [out |-> <<>>, err |-> data.err, trace |-> <<"checkInit", "Serialize">>]
            ELSE sign(data.text, Base64Encode(data.text))
    IN  IF checkInit(v) # "nil"
        THEN [out |-> <<>>, err |-> checkInit(v), trace |-> <<"checkInit">>]
        ELSE encode(Serialize(v.serializer, value))

\* Generate joining the serialized text itself, not its base64 encoding
GenerateNoBase64(v, value) ==
    LET sign(str) ==
            [out |-> str \o Delim \o DigestFor(v, str), err |-> "nil",
             trace |-> <<"checkInit", "Serialize", "DigestFor">>]
        encode(data) ==
            IF data.err # "nil"
            THEN [out |-> <<>>, err |-> data.err, trace |-> <<"checkInit", "Serialize">>]
            ELSE sign(data.text)
    IN  IF checkInit(v) # "nil"
        THEN [out |-> <<>>, err |-> checkInit(v), trace |-> <<"checkInit">>]
        ELSE encode(Serialize(v.serializer, value))

\* MessageVerifier.Generate: [out, err, trace]
Generate(v, value) ==
    LET sign(str) ==
            [out |-> str \o Delim \o DigestFor(v, str), err |-> "nil",
             trace |-> <<"checkInit", "Serialize", "base64.Encode", "DigestFor">>]
        encode(data) ==
            IF data.err # "nil"
            THEN [out |-> <<>>, err |-> data.err, trace |-> <<"checkInit", "Serialize">>]
            ELSE sign(Base64Encode(data.text))
    IN  IF checkInit(v) # "nil"
        THEN [out |-> <<>>, err |-> checkInit(v), trace |-> <<"checkInit">>]
        ELSE encode(Serialize(v.serializer, value))

\* Verify handing the data segment to the serializer without decoding it
VerifyNoDecode(v, msg, tgt) ==
    LET fail(e, t) == [target |-> tgt, err |-> e, trace |-> t]
        done(u) ==
            [target |-> u.target, err |-> u.err,
             trace |-> <<"checkInit", "Split", "DigestFor", "secureCompare",
                         "Unserialize">>]
        check(data, digest) ==
            IF ~secureCompare(digest, DigestFor(v, data))
            THEN fail("Invalid signature - bad data",
                      <<"checkInit", "Split", "DigestFor", "secureCompare">>)
            ELSE done(Unserialize(v.serializer, data, tgt))
        split(dataDigest) ==
            IF Len(dataDigest) # 2
            THEN fail("Invalid signature - bad data", <<"checkInit", "Split">>)
            ELSE check(dataDigest[1], dataDigest[2])
    IN  IF checkInit(v) # "nil" THEN fail(checkInit(v), <<"checkInit">>)
        ELSE IF msg = <<>>
        THEN fail("Invalid signature - empty message", <<"checkInit">>)
        ELSE split(Split(msg))

\* Verify testing len(dataDigest) < 2 where the code tests != 2
VerifyAtLeastTwo(v, msg, tgt) ==
    LET fail(e, t) == [target |-> tgt, err |-> e, trace |-> t]
        done(u) ==
            [target |-> u.target, err |-> u.err,
             trace |-> <<"checkInit", "Split", "DigestFor", "secureCompare",
                         "base64.Decode", "Unserialize">>]
        check(data, digest) ==
            IF ~secureCompare(digest, DigestFor(v, data))
            THEN fail("Invalid signature - bad data",
                      <<"checkInit", "Split", "DigestFor", "secureCompare">>)
            ELSE done(Unserialize(v.serializer, Base64Decode(data).bytes, tgt))
        split(dataDigest) ==
            IF Len(dataDigest) < 2
            THEN fail("Invalid signature - bad data", <<"checkInit", "Split">>)
            ELSE check(dataDigest[1], dataDigest[2])
    IN  IF checkInit(v) # "nil" THEN fail(checkInit(v), <<"checkInit">>)
        ELSE IF msg = <<>>
        THEN fail("Invalid signature - empty message", <<"checkInit">>)
        ELSE split(Split(msg))

\* MessageVerifier.Verify: [target, err, trace]
Verify(v, msg, tgt) ==
    LET fail(e, t) == [target |-> tgt, err |-> e, trace |-> t]
        \* the error of base64's DecodeString is overwritten unread
        done(u) ==
            [target |-> u.target, err |-> u.err,
             trace |-> <<"checkInit", "Split", "DigestFor", "secureCompare",
                         "base64.Decode", "Unserialize">>]
        check(data, digest) ==
            IF ~secureCompare(digest, DigestFor(v, data))
            THEN fail("Invalid signature - bad data",
                      <<"checkInit", "Split", "DigestFor", "secureCompare">>)
            ELSE done(Unserialize(v.serializer, Base64Decode(data).bytes, tgt))
        split(dataDigest) ==
            IF Len(dataDigest) # 2
            THEN fail("Invalid signature - bad data", <<"checkInit", "Split">>)
            ELSE check(dataDigest[1], dataDigest[2])
    IN  IF checkInit(v) # "nil" THEN fail(checkInit(v), <<"checkInit">>)
        ELSE IF msg = <<>>
        THEN fail("Invalid signature - empty message", <<"checkInit">>)
        ELSE split(Split(msg))

-----------------------------------------------------------------------------
(* MessageEncryptor *)

\* a nil []byte
NilBytes == <<-1>>

\* the key cut to its last 32 bytes instead of its first
TruncKeyLast(k) == IF Len(k) > MaxKeyLen THEN Drop(k, Len(k) - MaxKeyLen) ELSE k

\* the key the ciphers use: at most the first 32 bytes
TruncKey(k) == IF Len(k) > MaxKeyLen THEN Take(k, MaxKeyLen) ELSE k

InvalidKeySize == "crypto/aes: invalid key size"

NilCall == "panic: method call on a nil MsgSerializer"

\* the verifier EncryptAndSign and DecryptAndVerify build from SignKey
DefaultVerifier(signKey) == NewVerifier(signKey, "sha1", "null")

\* the JSON serializer set whether or not one was configured
DefaultSerializerAlways(c) == [c EXCEPT !.Serializer = "json"]

\* the serializer set by default where the code finds none
DefaultSerializer(c) ==
    IF c.Serializer = "nil" THEN [c EXCEPT !.Serializer = "json"] ELSE c

\* MessageEncryptor.aesCbcEncrypt: [out, err, crypt, trace]
aesCbcEncrypt(c, value, iv) ==
    LET k == TruncKey(c.Key)
        encode(c1, ciphertext) ==
            [out |-> Base64Encode(ciphertext) \o Delim \o Base64Encode(iv),
             err |-> "nil", crypt |-> c1,
             trace |-> <<"aes.NewCipher", "Serialize", "PKCS7Pad", "rand.Read",
                         "CBCEncrypt", "base64.Encode">>]
        encrypt(c1, sp) ==
            IF sp.err # "nil"
            THEN [out |-> <<>>, err |-> sp.err, crypt |-> c1,
                  trace |-> <<"aes.NewCipher", "Serialize">>]
            ELSE encode(c1, CBCEncrypt(k, iv, PKCS7Pad(sp.text)))
        serialize(c1) == encrypt(c1, Serialize(c1.Serializer, value))
    IN  IF ~ValidKeySize(k)
        THEN [out |-> <<>>, err |-> InvalidKeySize, crypt |-> c,
              trace |-> <<"aes.NewCipher">>]
        ELSE serialize(DefaultSerializer(c))

\* bytes.TrimRight taken for a trim of one byte
TrimOne16(data) ==
    IF data # <<>> /\ data[Len(data)] = 16 THEN Take(data, Len(data) - 1) ELSE data

\* bytes.TrimRight(data, "\x10")
TrimRight16(data) ==
    LET keep == {m \in 1..Len(data) : data[m] # 16}
    IN  IF keep = {} THEN <<>> ELSE Take(data, Min({-m : m \in keep}) * (-1))

\* aesCbcDecrypt without the test of len(ciphertext) < aes.BlockSize
aesCbcDecryptNoShortCheck(c, encryptedMsg, tgt) ==
    LET k == TruncKey(c.Key)
        fail(e, t) == [target |-> tgt, err |-> e, crypt |-> c, trace |-> t]
        done(u) ==
            [target |-> u.target, err |-> u.err, crypt |-> c,
             trace |-> <<"aes.NewCipher", "Split", "base64.Decode", "CBCDecrypt",
                         "PKCS7Unpad", "Unserialize">>]
        unserialize(unpadded) ==
            IF unpadded.panic
            THEN fail("panic: slice bounds out of range",
                      <<"aes.NewCipher", "Split", "base64.Decode", "CBCDecrypt",
                        "PKCS7Unpad">>)
            ELSE IF c.Serializer = "nil"
            THEN fail(NilCall,
                      <<"aes.NewCipher", "Split", "base64.Decode", "CBCDecrypt",
                        "PKCS7Unpad">>)
            ELSE IF c.Serializer = "json"
            THEN done(Unserialize(c.Serializer, TrimRight16(unpadded.data), tgt))
            ELSE done(Unserialize(c.Serializer, unpadded.data, tgt))
        decrypt(ciphertext, iv) ==
            IF ~ciphertext.ok \/ ~iv.ok
            THEN fail("illegal base64 data", <<"aes.NewCipher", "Split", "base64.Decode">>)
            ELSE IF Len(ciphertext.bytes) % BlockSize # 0
            THEN fail("bad data, ciphertext is not a multiple of the block size",
                      <<"aes.NewCipher", "Split", "base64.Decode">>)
            ELSE IF Len(iv.bytes) # BlockSize
            THEN fail("panic: cipher.NewCBCDecrypter: IV length must equal block size",
                      <<"aes.NewCipher", "Split", "base64.Decode">>)
            ELSE unserialize(PKCS7Unpad(CBCDecrypt(k, iv.bytes, ciphertext.bytes)))
        decode(splitMsg) ==
            IF Len(splitMsg) # 2
            THEN fail("bad data (--)", <<"aes.NewCipher", "Split">>)
            ELSE decrypt(Base64Decode(splitMsg[1]), Base64Decode(splitMsg[2]))
    IN  IF ~ValidKeySize(k) THEN fail(InvalidKeySize, <<"aes.NewCipher">>)
        ELSE decode(Split(encryptedMsg))

\* MessageEncryptor.aesCbcDecrypt: [target, err, crypt, trace]
aesCbcDecrypt(c, encryptedMsg, tgt) ==
    LET k == TruncKey(c.Key)
        fail(e, t) == [target |-> tgt, err |-> e, crypt |-> c, trace |-> t]
        done(u) ==
            [target |-> u.target, err |-> u.err, crypt |-> c,
             trace |-> <<"aes.NewCipher", "Split", "base64.Decode", "CBCDecrypt",
                         "PKCS7Unpad", "Unserialize">>]
        unserialize(unpadded) ==
            IF unpadded.panic
            THEN fail("panic: slice bounds out of range",
                      <<"aes.NewCipher", "Split", "base64.Decode", "CBCDecrypt",
                        "PKCS7Unpad">>)
            ELSE IF c.Serializer = "nil"
            THEN fail(NilCall,
                      <<"aes.NewCipher", "Split", "base64.Decode", "CBCDecrypt",
                        "PKCS7Unpad">>)
            ELSE IF c.Serializer = "json"
            THEN done(Unserialize(c.Serializer, TrimRight16(unpadded.data), tgt))
            ELSE done(Unserialize(c.Serializer, unpadded.data, tgt))
        decrypt(ciphertext, iv) ==
            IF ~ciphertext.ok \/ ~iv.ok
            THEN fail("illegal base64 data", <<"aes.NewCipher", "Split", "base64.Decode">>)
            ELSE IF Len(ciphertext.bytes) < BlockSize
            THEN fail("bad data, ciphertext too short",
                      <<"aes.NewCipher", "Split", "base64.Decode">>)
            ELSE IF Len(ciphertext.bytes) % BlockSize # 0
            THEN fail("bad data, ciphertext is not a multiple of the block size",
                      <<"aes.NewCipher", "Split", "base64.Decode">>)
            ELSE IF Len(iv.bytes) # BlockSize
            THEN fail("panic: cipher.NewCBCDecrypter: IV length must equal block size",
                      <<"aes.NewCipher", "Split", "base64.Decode">>)
            ELSE unserialize(PKCS7Unpad(CBCDecrypt(k, iv.bytes, ciphertext.bytes)))
        decode(splitMsg) ==
            IF Len(splitMsg) # 2
            THEN fail("bad data (--)", <<"aes.NewCipher", "Split">>)
            ELSE decrypt(Base64Decode(splitMsg[1]), Base64Decode(splitMsg[2]))
    IN  IF ~ValidKeySize(k) THEN fail(InvalidKeySize, <<"aes.NewCipher">>)
        ELSE decode(Split(encryptedMsg))

\* MessageEncryptor.aesGCMEncrypt: [out, err, crypt, trace]
aesGCMEncrypt(c, value, iv) ==
    LET k == TruncKey(c.Key)
        \* the tag is the last aesgcm.Overhead() bytes of what Seal returns
        encode(c1, ciphertext) ==
            [out |-> Base64Encode(Take(ciphertext, Len(ciphertext) - TagSize))
                     \o Delim \o Base64Encode(iv) \o Delim
                     \o Base64Encode(Drop(ciphertext, Len(ciphertext) - TagSize)),
             err |-> "nil", crypt |-> c1,
             trace |-> <<"aes.NewCipher", "Serialize", "rand.Read", "Seal",
                         "base64.Encode">>]
        seal(c1, sp) ==
            IF sp.err # "nil"
            THEN [out |-> <<>>, err |-> sp.err, crypt |-> c1,
                  trace |-> <<"aes.NewCipher", "Serialize">>]
            ELSE encode(c1, GcmSeal(k, iv, sp.text))
        serialize(c1) == seal(c1, Serialize(c1.Serializer, value))
    IN  IF ~ValidKeySize(k)
        THEN [out |-> <<>>, err |-> InvalidKeySize, crypt |-> c,
              trace |-> <<"aes.NewCipher">>]
        ELSE serialize(DefaultSerializer(c))

\* aesGCMDecrypt joining the tag in front of the ciphertext
aesGCMDecryptTagFirst(c, encryptedMsg, tgt) ==
    LET k == TruncKey(c.Key)
        fail(e, t) == [target |-> tgt, err |-> e, crypt |-> c, trace |-> t]
        done(u) ==
            [target |-> u.target, err |-> u.err, crypt |-> c,
             trace |-> <<"aes.NewCipher", "Split", "base64.Decode", "Open",
                         "Unserialize">>]
        unserialize(opened) ==
            IF opened.err # "nil"
            THEN fail(opened.err, <<"aes.NewCipher", "Split", "base64.Decode", "Open">>)
            ELSE IF c.Serializer = "nil"
            THEN fail(NilCall, <<"aes.NewCipher", "Split", "base64.Decode", "Open">>)
            ELSE done(Unserialize(c.Serializer, opened.plain, tgt))
        open(enc, nonce, tag) ==
            IF ~enc.ok \/ ~nonce.ok \/ ~tag.ok
            THEN fail("bad base64 encoding", <<"aes.NewCipher", "Split", "base64.Decode">>)
            ELSE unserialize(GcmOpen(k, nonce.bytes, tag.bytes \o enc.bytes))
        decode(vectors) ==
            IF Len(vectors) # 3
            THEN fail("missing vectors, want 3", <<"aes.NewCipher", "Split">>)
            ELSE open(Base64Decode(vectors[1]), Base64Decode(vectors[2]),
                      Base64Decode(vectors[3]))
    IN  IF ~ValidKeySize(k) THEN fail(InvalidKeySize, <<"aes.NewCipher">>)
        ELSE decode(SplitN(encryptedMsg, 3))

\* aesGCMDecrypt going on with what Open returned, its error unread
aesGCMDecryptUnchecked(c, encryptedMsg, tgt) ==
    LET k == TruncKey(c.Key)
        fail(e, t) == [target |-> tgt, err |-> e, crypt |-> c, trace |-> t]
        done(u) ==
            [target |-> u.target, err |-> u.err, crypt |-> c,
             trace |-> <<"aes.NewCipher", "Split", "base64.Decode", "Open",
                         "Unserialize">>]
        unserialize(opened) ==
            IF c.Serializer = "nil"
            THEN fail(NilCall, <<"aes.NewCipher", "Split", "base64.Decode", "Open">>)
            ELSE done(Unserialize(c.Serializer, opened.plain, tgt))
        \* enc = append(vectors[0], vectors[2]...), nonce = vectors[1]
        open(enc, nonce, tag) ==
            IF ~enc.ok \/ ~nonce.ok \/ ~tag.ok
            THEN fail("bad base64 encoding", <<"aes.NewCipher", "Split", "base64.Decode">>)
            ELSE unserialize(GcmOpen(k, nonce.bytes, enc.bytes \o tag.bytes))
        decode(vectors) ==
            IF Len(vectors) # 3
            THEN fail("missing vectors, want 3", <<"aes.NewCipher", "Split">>)
            ELSE open(Base64Decode(vectors[1]), Base64Decode(vectors[2]),
                      Base64Decode(vectors[3]))
    IN  IF ~ValidKeySize(k) THEN fail(InvalidKeySize, <<"aes.NewCipher">>)
        ELSE decode(SplitN(encryptedMsg, 3))

\* MessageEncryptor.aesGCMDecrypt: [target, err, crypt, trace]
aesGCMDecrypt(c, encryptedMsg, tgt) ==
    LET k == TruncKey(c.Key)
        fail(e, t) == [target |-> tgt, err |-> e, crypt |-> c, trace |-> t]
        done(u) ==
            [target |-> u.target, err |-> u.err, crypt |-> c,
             trace |-> <<"aes.NewCipher", "Split", "base64.Decode", "Open",
                         "Unserialize">>]
        unserialize(opened) ==
            IF opened.err # "nil"
            THEN fail(opened.err, <<"aes.NewCipher", "Split", "base64.Decode", "Open">>)
            ELSE IF c.Serializer = "nil"
            THEN fail(NilCall, <<"aes.NewCipher", "Split", "base64.Decode", "Open">>)
            ELSE done(Unserialize(c.Serializer, opened.plain, tgt))
        \* enc = append(vectors[0], vectors[2]...), nonce = vectors[1]
        open(enc, nonce, tag) ==
            IF ~enc.ok \/ ~nonce.ok \/ ~tag.ok
            THEN fail("bad base64 encoding", <<"aes.NewCipher", "Split", "base64.Decode">>)
            ELSE unserialize(GcmOpen(k, nonce.bytes, enc.bytes \o tag.bytes))
        decode(vectors) ==
            IF Len(vectors) # 3
            THEN fail("missing vectors, want 3", <<"aes.NewCipher", "Split">>)
            ELSE open(Base64Decode(vectors[1]), Base64Decode(vectors[2]),
                      Base64Decode(vectors[3]))
    IN  IF ~ValidKeySize(k) THEN fail(InvalidKeySize, <<"aes.NewCipher">>)
        ELSE decode(SplitN(encryptedMsg, 3))

Unsupported == "cipher not set or not supported"

\* MessageEncryptor.Encrypt: [out, err, crypt, trace]
Encrypt(c, value, iv) ==
    IF c.Cipher = "aes-cbc" THEN aesCbcEncrypt(c, value, iv)
    ELSE IF c.Cipher = "" THEN aesCbcEncrypt(c, value, iv)
    ELSE [out |-> <<>>, err |-> Unsupported, crypt |-> c, trace |-> <<>>]

\* MessageEncryptor.Decrypt: [target, err, crypt, trace]
Decrypt(c, value, tgt) ==
    IF c.Cipher = "aes-cbc" THEN aesCbcDecrypt(DefaultSerializer(c), value, tgt)
    ELSE IF c.Cipher = "" THEN aesCbcDecrypt(DefaultSerializer(c), value, tgt)
    ELSE [target |-> tgt, err |-> Unsupported, crypt |-> DefaultSerializer(c),
          trace |-> <<>>]

\* "Verifier not properly set: " + err.Error(), by the error of IsValid
NotProperlySet(e) ==
    CASE e = "Serializer not set" -> "Verifier not properly set: Serializer not set"
      [] e = "Hasher not set" -> "Verifier not properly set: Hasher not set"
      [] e = "Secret not set" -> "Verifier not properly set: Secret not set"

\* "Verification failed: " + err.Error(), by the error of Verify
VerificationFailed(e) ==
    CASE e = "Invalid signature - bad data" ->
             "Verification failed: Invalid signature - bad data"
      [] e = "Invalid signature - empty message" ->
             "Verification failed: Invalid signature - empty message"
      [] e = "Serializer not set" -> "Verification failed: Serializer not set"
      [] e = "Hasher not set" -> "Verification failed: Hasher not set"
      [] e = "Secret not set" -> "Verification failed: Secret not set"
      [] e = "json: cannot unmarshal" -> "Verification failed: json: cannot unmarshal"
      [] e = "xml: syntax error" -> "Verification failed: xml: syntax error"

\* the first statement of EncryptAndSign and of DecryptAndVerify: a default
\* verifier when none is set and a signature key was given
WithDefaultVerifier(c) ==
    IF c.Verifier.nil /\ c.SignKey # NilBytes
    THEN [c EXCEPT !.Verifier = DefaultVerifier(c.SignKey)]
    ELSE c

\* EncryptAndSign returning what Encrypt returned, the signature forgotten
EncryptAndSignUnsigned(c, value, iv) ==
    LET sign(e) ==
            [out |-> e.out, err |-> e.err, crypt |-> e.crypt,
             trace |-> <<"IsValid">> \o e.trace,
             inner |-> IF e.err = "nil" THEN e.out ELSE <<>>]
        encrypt(c1) ==
            IF c1.Verifier.nil
            THEN [out |-> <<>>, err |-> "Verifier and/or signature key not set: ",
                  crypt |-> c1, trace |-> <<>>, inner |-> <<>>]
            ELSE IF IsValid(c1.Verifier) # "nil"
            THEN [out |-> <<>>, err |-> NotProperlySet(IsValid(c1.Verifier)),
                  crypt |-> c1, trace |-> <<"IsValid">>, inner |-> <<>>]
            ELSE sign(Encrypt(c1, value, iv))
    IN  encrypt(WithDefaultVerifier(c))

\* MessageEncryptor.EncryptAndSign: [out, err, crypt, trace, inner]
EncryptAndSign(c, value, iv) ==
    LET generated(e, g) ==
            [out |-> g.out, err |-> g.err, crypt |-> e.crypt,
             trace |-> <<"IsValid">> \o e.trace \o <<"Generate">> \o g.trace,
             inner |-> e.out]
        sign(e) ==
            IF e.err # "nil"
            THEN [out |-> <<>>, err |-> e.err, crypt |-> e.crypt,
                  trace |-> <<"IsValid">> \o e.trace, inner |-> <<>>]
            ELSE generated(e, Generate(e.crypt.Verifier, e.out))
        encrypt(c1) ==
            IF c1.Verifier.nil
            THEN [out |-> <<>>, err |-> "Verifier and/or signature key not set: ",
                  crypt |-> c1, trace |-> <<>>, inner |-> <<>>]
            ELSE IF IsValid(c1.Verifier) # "nil"
            THEN [out |-> <<>>, err |-> NotProperlySet(IsValid(c1.Verifier)),
                  crypt |-> c1, trace |-> <<"IsValid">>, inner |-> <<>>]
            ELSE sign(Encrypt(c1, value, iv))
    IN  encrypt(WithDefaultVerifier(c))

\* DecryptAndVerify decrypting the data segment before it checks the
\* signature
DecryptThenVerify(c, msg, tgt) ==
    LET result(d, v) ==
            [target |-> d.target,
             err |-> IF v.err # "nil" THEN VerificationFailed(v.err) ELSE d.err,
             crypt |-> d.crypt,
             trace |-> <<"Decrypt">> \o d.trace \o <<"Verify">> \o v.trace]
        inner(c1) ==
            Unserialize(c1.Verifier.serializer,
                        Base64Decode(Split(msg)[1]).bytes, <<>>).target
        decrypt(c1) ==
            IF checkInit(c1.Verifier) # "nil" \/ msg = <<>>
            THEN [target |-> tgt,
                  err |-> IF c1.Verifier.nil THEN NilDeref
                          ELSE VerificationFailed(Verify(c1.Verifier, msg, <<>>).err),
                  crypt |-> c1, trace |-> <<"Verify">>]
            ELSE result(Decrypt(c1, inner(c1), tgt), Verify(c1.Verifier, msg, <<>>))
    IN  decrypt(WithDefaultVerifier(c))

\* MessageEncryptor.DecryptAndVerify: [target, err, crypt, trace]
DecryptAndVerify(c, msg, tgt) ==
    LET decrypted(v, d) ==
            [target |-> d.target, err |-> d.err, crypt |-> d.crypt,
             trace |-> <<"Verify">> \o v.trace \o <<"Decrypt">> \o d.trace]
        decrypt(c1, v) ==
            IF v.err # "nil"
            THEN [target |-> tgt, err |-> VerificationFailed(v.err), crypt |-> c1,
                  trace |-> <<"Verify">> \o v.trace]
            ELSE decrypted(v, Decrypt(c1, v.target, tgt))
        \* var base64Msg string; crypt.Verifier.Verify(msg, &base64Msg)
        verify(c1) ==
            IF c1.Verifier.nil
            THEN [target |-> tgt, err |-> NilDeref, crypt |-> c1, trace |-> <<"Verify">>]
            ELSE decrypt(c1, Verify(c1.Verifier, msg, <<>>))
    IN  verify(WithDefaultVerifier(c))

-----------------------------------------------------------------------------
(* KeyGenerator *)

\* the iteration count Generate sets when none is configured
DefaultIterations == 1000

\* KeyGenerator{Secret, Iterations}; the cache, a nil map until one is made,
\* is the set of its keys and what it maps them to
NewKeyGenerator(secret, iterations) ==
    [Secret |-> secret, Iterations |-> iterations,
     made |-> FALSE, cache |-> <<>>, keys |-> {}]

\* pbkdf2.Key(secret, salt, iterations, keySize, sha1.New): keySize bytes,
\* a function of the four, the shorter key a prefix of the longer
Pbkdf2(secret, salt, iterations, keySize) ==
    Mac(secret, <<iterations % 256, (iterations \div 256) % 256>> \o salt, 500, keySize)

\* the decimal digits of n, as fmt prints %d
RECURSIVE Decimal(_)
Decimal(n) == IF n < 10 THEN <<48 + n>> ELSE Decimal(n \div 10) \o <<48 + (n % 10)>>

\* fmt.Sprintf("%s%d", salt, keySize)
CacheKey(salt, keySize) == salt \o Decimal(keySize)

\* Generate deriving with a fixed count, the configured one unread
KeyGeneratorGenerateFixed(g, salt, keySize) ==
    [out |-> Pbkdf2(g.Secret, salt, 4096, keySize),
     g |-> IF g.Iterations = 0 THEN [g EXCEPT !.Iterations = DefaultIterations] ELSE g,
     trace |-> <<"pbkdf2.Key">>]

\* KeyGenerator.Generate: [out, g, trace], g the generator after the call,
\* trace the derivations run
KeyGeneratorGenerate(g, salt, keySize) ==
    IF g.Iterations = 0
    THEN [out |-> Pbkdf2(g.Secret, salt, DefaultIterations, keySize),
          g |-> [g EXCEPT !.Iterations = DefaultIterations],
          trace |-> <<"pbkdf2.Key">>]
    ELSE [out |-> Pbkdf2(g.Secret, salt, g.Iterations, keySize), g |-> g,
          trace |-> <<"pbkdf2.Key">>]

\* the cache with `key` mapped to `value`
CachePut(g, key, value) ==
    [g EXCEPT !.made = TRUE,
              !.keys = @ \cup {key},
              !.cache = [k \in g.keys \cup {key} |->
                            IF k = key THEN value ELSE g.cache[k]]]

\* KeyGenerator.CacheGenerate: [out, g, trace]; a key the map does not hold,
\* or holds with a nil value, reads as nil
CacheGenerate(g, salt, keySize) ==
    IF CacheKey(salt, keySize) \in g.keys
    THEN [out |-> g.cache[CacheKey(salt, keySize)], g |-> g, trace |-> <<>>]
    ELSE [out |-> KeyGeneratorGenerate(g, salt, keySize).out,
          g |-> CachePut(KeyGeneratorGenerate(g, salt, keySize).g,
                         CacheKey(salt, keySize),
                         KeyGeneratorGenerate(g, salt, keySize).out),
          trace |-> KeyGeneratorGenerate(g, salt, keySize).trace]

-----------------------------------------------------------------------------
(* The inputs: values, keys, random bytes, configurations *)

\* a string of n bytes: 'a' repeated, then the byte `last`
Str(n, last) == IF n = 0 THEN <<>> ELSE Rep(n - 1, 97) \o <<last>>

\* lengths 0 and 1 and the lengths around each block boundary
Lens == {0, 1} \cup {k * BlockSize + d : k \in 1..MaxBlocks, d \in {-2, -1, 0, 1}}

\* last bytes: a pad-like 0x01, the 0x10 the JSON rule strips, a letter
LastBytes == {1, 16, 97}

Values == {Str(n, l) : n \in Lens, l \in LastBytes}

K32 == [i \in 1..32 |-> (7 * i + 3) % 256]

\* a 64-byte key whose first 32 bytes are K32
K64 == K32 \o [i \in 1..32 |-> (11 * i + 5) % 256]

\* a key aes.NewCipher rejects
KBad == <<1, 2, 3, 4, 5>>

\* what rand.Reader may deliver for an IV
IVs == {[i \in 1..BlockSize |-> (37 * i + 11) % 256], Rep(BlockSize, 0)}

\* what rand.Reader may deliver for a nonce
Nonces == {Take(iv, NonceSize) : iv \in IVs}

\* "this is a secret!" and "signature secret!", shortened
SignSecret == <<115, 105, 103, 110>>

OtherSecret == <<72, 101, 121>>

NewEncryptor(key, signKey, cipher, verifier, serializer) ==
    [Key |-> key, SignKey |-> signKey, Cipher |-> cipher,
     Verifier |-> verifier, Serializer |-> serializer]

\* tokens nobody generated: the empty one, "garbage data", three segments
GarbageData == <<103, 97, 114, 98, 97, 103, 101, 32, 100, 97, 116, 97>>

Forged == {<<>>, GarbageData, <<97, 45, 45, 98, 45, 45, 99>>}

\* tokens that are no block-cipher token: a ciphertext or an IV that is no
\* base64, a ciphertext of 0, 3 or 17 bytes
Malformed ==
    {<<33, 33>> \o Delim \o Base64Encode(Rep(BlockSize, 0)),
     Base64Encode(Rep(BlockSize, 7)) \o Delim \o <<33, 33>>,
     Delim \o Base64Encode(Rep(BlockSize, 0)),
     Base64Encode(Rep(3, 7)) \o Delim \o Base64Encode(Rep(BlockSize, 0)),
     Base64Encode(Rep(BlockSize + 1, 7)) \o Delim \o Base64Encode(Rep(BlockSize, 0))}

\* tokens well formed but for a length: a block-cipher token with an IV of
\* 3 bytes, an authenticated-encryption token with a nonce of 3 bytes
WrongLength ==
    {Base64Encode(Rep(BlockSize, 7)) \o Delim \o Base64Encode(Rep(3, 0)),
     Base64Encode(Rep(BlockSize, 7)) \o Delim \o Base64Encode(Rep(3, 0))
        \o Delim \o Base64Encode(Rep(TagSize, 9))}

\* the bytes an altered token gets: '-', 'A', 'f'
TamperBytes == {45, 65, 102}

\* the values whose tokens are altered byte by byte
TamperValues == {Rep(n, 97) : n \in 0..MaxTamperLen}

\* the last bytes PKCS7Unpad may read as a padding length: 0, the lengths
\* on both sides of 16, a letter
PadBytes == {0, 1, 15, 16, 17, 97}

\* byte sequences handed to PKCS7Pad and PKCS7Unpad
PadInputs == {Str(n, l) : n \in Lens, l \in PadBytes}

\* the key of somebody else
KWrong == [i \in 1..32 |-> (5 * i + 1) % 256]

\* inner tokens that are not what Encrypt returns for a value: the malformed
\* ones, the token of "a" made under another key, and a token whose
\* plaintext, "{", no serializer but the null one reads
InnerTokens ==
    Malformed \cup
    {Base64Encode(CBCEncrypt(KWrong, Rep(BlockSize, 0), <<34, 97, 34>> \o Rep(13, 13)))
        \o Delim \o Base64Encode(Rep(BlockSize, 0)),
     Base64Encode(CBCEncrypt(K32, Rep(BlockSize, 0), <<123>> \o Rep(15, 15)))
        \o Delim \o Base64Encode(Rep(BlockSize, 0))}

\* what is added to a byte of an authenticated-encryption token to alter it
TamperDeltas == {1, 128}

\* the secrets keys are derived from
RailsSecrets == {<<102, 55, 98, 53>>, <<>>}

\* salts: "a", "a1", "b"
Salts == {<<97>>, <<97, 49>>, <<98>>}

\* key sizes asked for
KeySizes == {6, 16}

\* the iteration counts configured: none, the default, another
IterationCounts == {0, DefaultIterations, 7}

EncodeOps == {"Encrypt", "EncryptAndSign", "Generate", "aesGCMEncrypt"}

DecodeOps == {"Decrypt", "DecryptAndVerify", "Verify", "aesGCMDecrypt"}

-----------------------------------------------------------------------------
(* The state machine: one call per step.  A call is made on the objects as *)
(* the calls before left them; an encoding call puts its result in flight, *)
(* a decoding call reads the token in flight into a fresh target.          *)

Ready == op = "none"

\* the goroutines that share one KeyGenerator
Goroutines == {1, 2}

\* a goroutine that is not inside CacheGenerate
NoCall == [pc |-> "idle", salt |-> <<>>, keySize |-> 0, val |-> <<>>, out |-> <<>>]

InFlight == op \notin DecodeOps /\ op # "none" /\ tokKind # "none"

InitAll(Encryptors, Verifiers, Generators) ==
    /\ crypt \in Encryptors
    /\ mv \in Verifiers
    /\ kg \in Generators
    /\ kgCall = [salt |-> <<>>, keySize |-> 0, g |-> kg, asked |-> {}]
    /\ calls = [p \in Goroutines |-> NoCall]
    /\ token = <<>> /\ tokKind = "none" /\ tokValue = <<>> /\ tokInner = <<>>
    /\ op = "none" /\ out = <<>> /\ err = "nil" /\ target = Untouched
    /\ trace = <<>>

\* KeyGenerator{Secret: railsSecret}
OneGenerator == {NewKeyGenerator(<<102, 55, 98, 53>>, 0)}

InitWith(Encryptors, Verifiers) == InitAll(Encryptors, Verifiers, OneGenerator)

\* An encoding call returned r.  With `peer` the call was made on an equal
\* copy of the encryptor (another process holding the same configuration),
\* so this encryptor keeps its fields.
Encoded(name, v, r, peer) ==
    /\ peer => r.crypt # crypt
    /\ crypt' = IF peer THEN crypt ELSE r.crypt
    /\ token' = r.out
    /\ tokKind' = IF r.err = "nil" THEN name ELSE "none"
    /\ tokValue' = v
    /\ tokInner' = IF "inner" \in DOMAIN r THEN r.inner ELSE <<>>
    /\ op' = name /\ out' = r.out /\ err' = r.err /\ trace' = r.trace
    /\ target' = Untouched
    /\ UNCHANGED <<calls, kg, kgCall, mv>>

\* A decoding call on the token in flight returned r
Decoded(name, r) ==
    /\ crypt' = r.crypt
    /\ op' = name /\ out' = <<>> /\ err' = r.err /\ trace' = r.trace
    /\ target' = r.target
    /\ UNCHANGED <<calls, kg, kgCall, mv, token, tokKind, tokValue, tokInner>>

EncryptCall ==
    /\ Ready
    /\ \E v \in Values, iv \in IVs, peer \in BOOLEAN :
          Encoded("Encrypt", v, Encrypt(crypt, v, iv), peer)

EncryptAndSignCall ==
    /\ Ready
    /\ \E v \in Values, iv \in IVs, peer \in BOOLEAN :
          Encoded("EncryptAndSign", v, EncryptAndSign(crypt, v, iv), peer)

aesGCMEncryptCall ==
    /\ Ready
    /\ \E v \in Values, iv \in Nonces, peer \in BOOLEAN :
          Encoded("aesGCMEncrypt", v, aesGCMEncrypt(crypt, v, iv), peer)

GenerateCall ==
    /\ Ready
    /\ \E v \in Values :
          Encoded("Generate", v, Generate(mv, v) @@ [crypt |-> crypt], FALSE)

\* DigestFor called on its own, whatever the verifier holds: it makes no
\* check of its own, and hmac.New calls the hasher, a nil function when
\* none is set.  The caller joins the text and its digest into a token, as
\* Generate does with the base64 text; the text here is any string.
DigestForCall ==
    /\ Ready
    /\ \E data \in Values :
          /\ op' = "DigestFor" /\ tokValue' = data
          /\ IF mv.secret # <<>> /\ mv.hasher = "nil"
             THEN /\ out' = <<>> /\ err' = NilDeref
                  /\ token' = <<>> /\ tokKind' = "none"
             ELSE /\ out' = DigestFor(mv, data) /\ err' = "nil"
                  /\ token' = data \o Delim \o DigestFor(mv, data)
                  /\ tokKind' = "DigestFor"
          /\ target' = Untouched /\ trace' = <<"DigestFor">>
          /\ UNCHANGED <<calls, kg, kgCall, crypt, mv, tokInner>>

\* the decoding calls; an altered signed token goes to the verifying calls
DecryptCall ==
    /\ InFlight /\ op # "Tamper"
    /\ Decoded("Decrypt", Decrypt(crypt, token, Untouched))

DecryptAndVerifyCall ==
    /\ InFlight
    /\ Decoded("DecryptAndVerify", DecryptAndVerify(crypt, token, Untouched))

aesGCMDecryptCall ==
    /\ InFlight /\ op # "Tamper"
    /\ Decoded("aesGCMDecrypt", aesGCMDecrypt(crypt, token, Untouched))

VerifyCall ==
    /\ InFlight
    /\ Decoded("Verify", Verify(mv, token, Untouched) @@ [crypt |-> crypt])

\* Somebody hands over a token no call produced
Forge ==
    /\ Ready
    /\ \E t \in Forged \cup Malformed \cup WrongLength :
          /\ token' = t /\ tokKind' = "forged" /\ op' = "Forge"
          /\ UNCHANGED <<calls, kg, kgCall, crypt, mv, tokValue, tokInner, out, err, target, trace>>

\* Somebody holding the signing configuration signs an inner token Encrypt
\* did not make: Verifier.Generate called on it directly, on the
\* encryptor's verifier when that one signs, else on the stand-alone one
GenerateInner ==
    /\ Ready
    /\ \E t \in InnerTokens :
         \E v \in {IF checkInit(WithDefaultVerifier(crypt).Verifier) = "nil"
                   THEN WithDefaultVerifier(crypt).Verifier ELSE mv} :
          /\ Generate(v, t).err = "nil"
          /\ token' = Generate(v, t).out
          /\ tokKind' = "Generate/inner" /\ tokValue' = t /\ op' = "GenerateInner"
          /\ UNCHANGED <<calls, kg, kgCall, crypt, mv, tokInner, out, err, target, trace>>

\* PKCS7 padding as Rails (OpenSSL) applies it: 1 to 16 bytes, a whole block
\* of 0x10 after a text of aligned length
RailsPad(text) ==
    text \o Rep(BlockSize - (Len(text) % BlockSize), BlockSize - (Len(text) % BlockSize))

\* A cookie made by Rails is handed over: the JSON text of a value, padded
\* by OpenSSL and encrypted in CBC mode under the first 32 bytes of the
\* shared key
RailsCookie ==
    /\ Ready
    /\ \E v \in Values, iv \in IVs :
          /\ token' = Base64Encode(CBCEncrypt(K32, iv, RailsPad(JsonSerialize(v).text)))
                        \o Delim \o Base64Encode(iv)
          /\ tokKind' = "Rails" /\ tokValue' = v /\ op' = "Rails"
          /\ UNCHANGED <<calls, kg, kgCall, crypt, mv, tokInner, out, err, target, trace>>

\* Somebody changes one byte of the data segment or of the digest segment
\* of a signed token
TamperByte ==
    /\ InFlight
    /\ tokKind \in {"Generate", "EncryptAndSign"}
    /\ tokValue \in TamperValues
    /\ LET d == Len(Split(token)[1])
       IN  \E i \in (1..d) \cup ((d + 3)..Len(token)), b \in TamperBytes :
              /\ token[i] # b
              /\ token' = [token EXCEPT ![i] = b]
              /\ tokKind' = IF i <= d THEN tokKind \o "/data" ELSE tokKind \o "/digest"
              /\ op' = "Tamper"
              /\ UNCHANGED <<calls, kg, kgCall, crypt, mv, tokValue, tokInner, out, err, target, trace>>

\* An authenticated-encryption token made under another key is handed over:
\* aesGCMEncrypt called on an encryptor that differs by its Key
aesGCMEncryptElsewhere ==
    /\ Ready
    /\ \E v \in TamperValues, iv \in Nonces :
          /\ token' = aesGCMEncrypt([crypt EXCEPT !.Key = KWrong], v, iv).out
          /\ tokKind' = "aesGCMEncrypt/key" /\ tokValue' = v /\ op' = "Elsewhere"
          /\ UNCHANGED <<calls, kg, kgCall, crypt, mv, tokInner, out, err, target, trace>>

\* the three decoded vectors of a token, byte i of vector j moved by d,
\* encoded and joined again
GcmAltered(seg, j, i, d) ==
    LET vec(n) == IF n = j
                  THEN [Base64Decode(seg[n]).bytes EXCEPT ![i] = (@ + d) % 256]
                  ELSE Base64Decode(seg[n]).bytes
    IN  Base64Encode(vec(1)) \o Delim \o Base64Encode(vec(2)) \o Delim
        \o Base64Encode(vec(3))

\* Somebody changes one byte of the ciphertext, of the nonce or of the tag
\* of an authenticated-encryption token
TamperGcm ==
    /\ InFlight
    /\ tokKind \in {"aesGCMEncrypt", "aesGCMEncrypt/key"}
    /\ tokValue \in TamperValues
    /\ \E j \in 1..3, d \in TamperDeltas :
          \E i \in 1..Len(Base64Decode(SplitN(token, 3)[j]).bytes) :
             /\ token' = GcmAltered(SplitN(token, 3), j, i, d)
             /\ tokKind' = CASE j = 1 -> "aesGCMEncrypt/ciphertext"
                              [] j = 2 -> "aesGCMEncrypt/nonce"
                              [] j = 3 -> "aesGCMEncrypt/tag"
             /\ op' = "TamperGcm"
             /\ UNCHANGED <<calls, kg, kgCall, crypt, mv, tokValue, tokInner, out, err, target, trace>>

\* Somebody reverses the data segment or the digest segment of a signed token
TamperReverse ==
    /\ InFlight
    /\ tokKind \in {"Generate", "EncryptAndSign"}
    /\ LET seg == Split(token)
       IN  \E which \in {"/data", "/digest"} :
              LET t == IF which = "/data"
                       THEN Reverse(seg[1]) \o Delim \o seg[2]
                       ELSE seg[1] \o Delim \o Reverse(seg[2])
              IN  /\ t # token
                  /\ token' = t
                  /\ tokKind' = tokKind \o which
                  /\ op' = "Tamper"
                  /\ UNCHANGED <<calls, kg, kgCall, crypt, mv, tokValue, tokInner, out, err, target, trace>>

\* PKCS7Pad called on its own: `out` holds the padded bytes
PKCS7PadCall ==
    /\ Ready
    /\ \E d \in PadInputs :
          /\ op' = "PKCS7Pad" /\ tokValue' = d /\ out' = PKCS7Pad(d)
          /\ err' = "nil" /\ target' = Untouched /\ trace' = <<"PKCS7Pad">>
          /\ UNCHANGED <<calls, kg, kgCall, crypt, mv, token, tokKind, tokInner>>

\* PKCS7Unpad returned r for `data`; a run-time panic returns nothing
Unpadded(data, r, t) ==
    /\ op' = "PKCS7Unpad" /\ out' = data
    /\ err' = IF r.panic THEN "panic: runtime error: out of range" ELSE "nil"
    /\ target' = IF r.panic THEN Untouched ELSE r.data
    /\ trace' = t
    /\ UNCHANGED <<calls, kg, kgCall, crypt, mv, token, tokKind, tokInner>>

\* PKCS7Unpad called on its own, on what PKCS7Pad just returned or on bytes
\* nobody padded
PKCS7UnpadCall ==
    \/ /\ op = "PKCS7Pad"
       /\ Unpadded(out, PKCS7Unpad(out), <<"PKCS7Pad", "PKCS7Unpad">>)
       /\ UNCHANGED tokValue
    \/ /\ Ready
       /\ \E d \in PadInputs :
             /\ Unpadded(d, PKCS7Unpad(d), <<"PKCS7Unpad">>)
             /\ tokValue' = <<>>

\* The caller drops the result and the token; the objects stay as they are
Reset ==
    /\ ~Ready
    /\ token' = <<>> /\ tokKind' = "none" /\ tokValue' = <<>> /\ tokInner' = <<>>
    /\ op' = "none" /\ out' = <<>> /\ err' = "nil" /\ target' = Untouched
    /\ trace' = <<>>
    /\ UNCHANGED <<calls, kg, kgCall, crypt, mv>>

\* A call on the key generator returned r; the generator shares nothing
\* with the encryptor and the verifier.  kgCall keeps the arguments, the
\* generator as the call found it, and the (salt, keySize) pairs the
\* CacheGenerate calls before this one were made with.
Generated(name, salt, keySize, r) ==
    /\ op' = name /\ out' = r.out /\ kg' = r.g /\ trace' = r.trace
    /\ kgCall' = [salt |-> salt, keySize |-> keySize, g |-> kg,
                  asked |-> IF op = "CacheGenerate"
                            THEN kgCall.asked \cup {<<kgCall.salt, kgCall.keySize>>}
                            ELSE kgCall.asked]
    /\ UNCHANGED <<calls, crypt, mv, token, tokKind, tokValue, tokInner, err, target>>

KeyGeneratorGenerateCall ==
    \E salt \in Salts, keySize \in KeySizes :
       Generated("KeyGenerator.Generate", salt, keySize,
                 KeyGeneratorGenerate(kg, salt, keySize))

CacheGenerateCall ==
    \E salt \in Salts, keySize \in KeySizes :
       Generated("CacheGenerate", salt, keySize, CacheGenerate(kg, salt, keySize))

\* Concurrent calls: CacheGenerate has no lock, so the statements of the
\* calls of two goroutines interleave; a step is one statement, named by
\* what it does, which reads or writes g.cache, the map or g.Iterations.

\* goroutine p goes on to statement pc
Goes(p, pc) ==
    /\ calls' = [calls EXCEPT ![p].pc = pc]
    /\ UNCHANGED <<crypt, mv, token, tokKind, tokValue, tokInner,
                   op, out, err, target, trace, kgCall>>

\* the runtime has not ended the program
Running == \A p \in Goroutines : calls[p].pc # "fatal"

\* the memory a statement reads ("r") and writes ("w")
Accesses(pc) ==
    CASE pc = "isNilMap" -> {<<"g.cache", "r">>}
      [] pc = "makeMap" -> {<<"g.cache", "w">>}
      [] pc = "isNilEntry" -> {<<"g.cache", "r">>, <<"map", "r">>}
      [] pc = "isZeroIterations" -> {<<"g.Iterations", "r">>}
      [] pc = "setIterations" -> {<<"g.Iterations", "w">>}
      [] pc = "pbkdf2.Key" -> {<<"g.Iterations", "r">>}
      [] pc = "store" -> {<<"g.cache", "r">>, <<"map", "w">>}
      [] pc = "return" -> {<<"g.cache", "r">>, <<"map", "r">>}
      [] OTHER -> {}

\* the next statements of p and q touch the same memory, one writing it
Conflict(p, q) ==
    \E a \in Accesses(calls[p].pc), b \in Accesses(calls[q].pc) :
       a[1] = b[1] /\ "w" \in {a[2], b[2]}

\* go g.CacheGenerate(salt, keySize); key := fmt.Sprintf("%s%d", salt, keySize).
\* The salts are those whose keys differ for every size.
CacheGenerateGo ==
    \E p \in Goroutines, salt \in Salts \ {<<97, 49>>}, keySize \in KeySizes :
       /\ Running /\ calls[p].pc \in {"idle", "done"}
       /\ calls' = [calls EXCEPT ![p] = [pc |-> "isNilMap", salt |-> salt,
                                         keySize |-> keySize, val |-> <<>>,
                                         out |-> <<>>]]
       /\ UNCHANGED <<crypt, mv, token, tokKind, tokValue, tokInner,
                      op, out, err, target, trace, kg, kgCall>>

\* if g.cache == nil
IsNilMap ==
    \E p \in Goroutines :
       /\ calls[p].pc = "isNilMap"
       /\ Goes(p, IF kg.made THEN "isNilEntry" ELSE "makeMap")
       /\ UNCHANGED kg

\* g.cache = map[string][]byte{}: a new, empty map takes the place of the
\* one the field held
MakeMap ==
    \E p \in Goroutines :
       /\ calls[p].pc = "makeMap"
       /\ Goes(p, "isNilEntry")
       /\ kg' = [kg EXCEPT !.made = TRUE, !.cache = <<>>, !.keys = {}]

\* if g.cache[key] == nil
IsNilEntry ==
    \E p \in Goroutines :
       /\ calls[p].pc = "isNilEntry"
       /\ Goes(p, IF CacheKey(calls[p].salt, calls[p].keySize) \in kg.keys
                  THEN "return" ELSE "isZeroIterations")
       /\ UNCHANGED kg

\* Generate: if g.Iterations == 0
IsZeroIterations ==
    \E p \in Goroutines :
       /\ calls[p].pc = "isZeroIterations"
       /\ Goes(p, IF kg.Iterations = 0 THEN "setIterations" ELSE "pbkdf2.Key")
       /\ UNCHANGED kg

\* g.Iterations = 1000
SetIterations ==
    \E p \in Goroutines :
       /\ calls[p].pc = "setIterations"
       /\ Goes(p, "pbkdf2.Key")
       /\ kg' = [kg EXCEPT !.Iterations = DefaultIterations]

\* return pbkdf2.Key([]byte(g.Secret), salt, g.Iterations, keySize, sha1.New)
DeriveKey ==
    \E p \in Goroutines :
       /\ calls[p].pc = "pbkdf2.Key"
       /\ calls' = [calls EXCEPT
                       ![p].pc = "store",
                       ![p].val = Pbkdf2(kg.Secret, calls[p].salt, kg.Iterations,
                                         calls[p].keySize)]
       /\ UNCHANGED <<crypt, mv, token, tokKind, tokValue, tokInner,
                      op, out, err, target, trace, kg, kgCall>>

\* g.cache[key] = (what Generate returned), into the map the field holds now
StoreKey ==
    \E p \in Goroutines :
       /\ calls[p].pc = "store"
       /\ Goes(p, "return")
       /\ kg' = CachePut(kg, CacheKey(calls[p].salt, calls[p].keySize), calls[p].val)

\* return g.cache[key]: nil when the map the field holds now has no entry
ReturnKey ==
    \E p \in Goroutines :
       /\ calls[p].pc = "return"
       /\ calls' = [calls EXCEPT
                       ![p].pc = "done",
                       ![p].out = IF CacheKey(calls[p].salt, calls[p].keySize) \in kg.keys
                                  THEN kg.cache[CacheKey(calls[p].salt, calls[p].keySize)]
                                  ELSE NilBytes]
       /\ UNCHANGED <<crypt, mv, token, tokKind, tokValue, tokInner,
                      op, out, err, target, trace, kg, kgCall>>

\* A goroutine about to write the map while another is about to read or
\* write it: the runtime may detect it ("fatal error: concurrent map
\* writes", "concurrent map read and map write") and end the program, or
\* not, and the statements then take effect in some order.
FatalError ==
    /\ \E p, q \in Goroutines :
          /\ p # q /\ calls[p].pc = "store"
          /\ <<"map", "r">> \in Accesses(calls[q].pc) \/ calls[q].pc = "store"
    /\ calls' = [p \in Goroutines |-> [calls[p] EXCEPT !.pc = "fatal"]]
    /\ UNCHANGED <<crypt, mv, token, tokKind, tokValue, tokInner,
                   op, out, err, target, trace, kg, kgCall>>

\* What goroutines calling CacheGenerate on one generator do
ConcurrentNext ==
    \/ CacheGenerateGo
    \/ IsNilMap
    \/ MakeMap
    \/ IsNilEntry
    \/ IsZeroIterations
    \/ SetIterations
    \/ DeriveKey
    \/ StoreKey
    \/ ReturnKey
    \/ FatalError

Next ==
    \/ EncryptCall
    \/ EncryptAndSignCall
    \/ aesGCMEncryptCall
    \/ GenerateCall
    \/ DigestForCall
    \/ DecryptCall
    \/ DecryptAndVerifyCall
    \/ aesGCMDecryptCall
    \/ VerifyCall
    \/ Forge
    \/ RailsCookie
    \/ GenerateInner
    \/ TamperByte
    \/ TamperReverse
    \/ aesGCMEncryptElsewhere
    \/ TamperGcm
    \/ PKCS7PadCall
    \/ PKCS7UnpadCall
    \/ Reset

\* The calls on the key generator, which derives keys before any message
\* object exists and shares no state with them
KeyGeneratorNext ==
    \/ KeyGeneratorGenerateCall
    \/ CacheGenerateCall

-----------------------------------------------------------------------------
(* Configurations explored *)

ValidVerifiers == {NewVerifier(OtherSecret, h, s) : h \in Hashers, s \in Serializers}

AllVerifiers ==
    {NewVerifier(sec, h, s) : sec \in {<<>>, OtherSecret},
                              h \in Hashers \cup {"nil"},
                              s \in Serializers \cup {"nil"}}

\* block-cipher encryptors without any signing configuration
CbcEncryptors ==
    {NewEncryptor(k, NilBytes, c, NilVerifier, s) :
        k \in {K32, K64, KBad}, c \in {"", "aes-cbc"}, s \in Serializers \cup {"nil"}}

\* encryptors with every signing configuration
SigningEncryptors ==
    {NewEncryptor(K32, sk, c, v, s) :
        sk \in {NilBytes, <<>>, SignSecret},
        c \in {"", "aes-cbc", "aes-256-gcm"},
        v \in {NilVerifier,
               NewVerifier(OtherSecret, "sha256", "json"),
               NewVerifier(OtherSecret, "nil", "null")},
        s \in {"nil", "null"}}

\* encryptors set up for the authenticated-encryption cipher, and for a
\* cipher nothing implements
GcmEncryptors ==
    {NewEncryptor(k, NilBytes, c, NilVerifier, s) :
        k \in {K32, K64, KBad}, c \in {"aes-256-gcm", "rc4"},
        s \in Serializers \cup {"nil"}}

OneVerifier == {NewVerifier(OtherSecret, "sha1", "json")}

OneEncryptor == {NewEncryptor(K32, SignSecret, "", NilVerifier, "nil")}

\* an encryptor whose key aes.NewCipher rejects: its calls all fail, which
\* leaves the verifier explored on its own tokens
IdleEncryptor == {NewEncryptor(KBad, NilBytes, "", NilVerifier, "null")}

Init == InitWith(OneEncryptor, OneVerifier)

Spec == Init /\ [][Next]_vars

SpecCbc == InitWith(CbcEncryptors, OneVerifier) /\ [][Next]_vars

SpecSign == InitWith(SigningEncryptors, OneVerifier) /\ [][Next]_vars

SpecGcm == InitWith(GcmEncryptors, OneVerifier) /\ [][Next]_vars

SpecVerifier == InitWith(IdleEncryptor, AllVerifiers) /\ [][Next]_vars

KeyGenerators == {NewKeyGenerator(s, i) : s \in RailsSecrets, i \in IterationCounts}

SpecKeyGenerator ==
    InitAll(IdleEncryptor, OneVerifier, KeyGenerators) /\ [][KeyGeneratorNext]_vars

\* goroutines sharing a generator with no count set, and one with a count
SpecConcurrent ==
    /\ InitAll(IdleEncryptor, OneVerifier,
               {NewKeyGenerator(<<102, 55, 98, 53>>, i) : i \in {0, 7}})
    /\ [][ConcurrentNext]_vars

\* two signing encryptors (SignKey only; an explicit SHA-256 verifier) and two
\* stand-alone verifiers (SHA-512, MD5): every hasher signs a token
TamperEncryptors ==
    {NewEncryptor(K32, SignSecret, "", NilVerifier, "nil"),
     NewEncryptor(K64, NilBytes, "aes-cbc",
                  NewVerifier(OtherSecret, "sha256", "xml"), "null")}

TamperVerifiers ==
    {NewVerifier(OtherSecret, "sha512", "xml"), NewVerifier(SignSecret, "md5", "json")}

SpecTamper == InitWith(TamperEncryptors, TamperVerifiers) /\ [][Next]_vars

-----------------------------------------------------------------------------
(* Properties *)

\* the verifier is fully configured
FullyConfigured(v) ==
    ~v.nil /\ v.secret # <<>> /\ v.hasher \in Hashers /\ v.serializer \in Serializers

\* the last call decoded, with `dec`, the unaltered token `enc` produced
DecodedFrom(dec, enc) == op = dec /\ tokKind = enc

\* C1: in block-cipher mode, Decrypt on the token Encrypt returned for a
\* serializable value v returns no error and fills the target with v, for
\* every plaintext length and last byte.
C1_DecryptEncrypt ==
    (/\ DecodedFrom("Decrypt", "Encrypt")
     /\ crypt.Cipher \in {"", "aes-cbc"}
     /\ Serializable(crypt.Serializer, tokValue))
    => (err = "nil" /\ target = tokValue)

\* C2: in block-cipher mode, DecryptAndVerify on the token EncryptAndSign
\* returned for a serializable value v returns no error and fills the
\* target with v, with an explicit Verifier and with SignKey alone.
C2_DecryptAndVerifyEncryptAndSign ==
    (/\ DecodedFrom("DecryptAndVerify", "EncryptAndSign")
     /\ crypt.Cipher \in {"", "aes-cbc"}
     /\ Serializable(crypt.Serializer, tokValue))
    => (err = "nil" /\ target = tokValue)

\* C3: on a fully configured verifier with the JSON or the XML serializer
\* and any hasher, Verify on the token Generate returned for a serializable
\* value v returns no error and leaves the target equal to v.
C3_VerifyGenerate ==
    (/\ DecodedFrom("Verify", "Generate")
     /\ FullyConfigured(mv) /\ mv.serializer \in {"json", "xml"}
     /\ Serializable(mv.serializer, tokValue))
    => (err = "nil" /\ target = tokValue)

C3_Witness ==
    /\ DecodedFrom("Verify", "Generate")
    /\ mv.hasher = "md5" /\ mv.serializer = "xml"
    /\ Len(tokValue) = BlockSize + 1
    /\ err = "nil" /\ target = tokValue

\* the token in flight is a signed token one byte or one segment of which
\* was altered
Altered(enc) == tokKind \in {enc \o "/data", enc \o "/digest"}

\* C4: a token of Generate or EncryptAndSign whose data segment or digest
\* segment was changed is rejected: Verify returns "Invalid signature - bad
\* data", DecryptAndVerify the same wrapped, and the target is unchanged.
C4_TamperRejected ==
    /\ (op = "Verify" /\ Altered("Generate"))
          => (err = "Invalid signature - bad data" /\ target = Untouched)
    /\ (op = "DecryptAndVerify" /\ Altered("EncryptAndSign"))
          => (/\ err = "Verification failed: Invalid signature - bad data"
              /\ target = Untouched)

C4_Witness ==
    /\ op = "DecryptAndVerify" /\ tokKind = "EncryptAndSign/data"
    /\ Len(Split(token)) = 2
    /\ err = "Verification failed: Invalid signature - bad data"

\* C5: with the authenticated-encryption cipher, EncryptAndSign on an
\* encryptor that has a valid Key but no Verifier and no SignKey succeeds
\* and returns the three-segment token of Encrypt, and DecryptAndVerify
\* decrypts such a token; no verifier is needed or created.
C5_AeadNeedsNoVerifier ==
    (/\ op \in {"EncryptAndSign", "DecryptAndVerify"}
     /\ crypt.Cipher = "aes-256-gcm"
     /\ ValidKeySize(TruncKey(crypt.Key))
     /\ op = "DecryptAndVerify" => tokKind = "aesGCMEncrypt" /\ crypt.Serializer # "nil")
    => (/\ err = "nil"
        /\ crypt.Verifier.nil
        /\ op = "EncryptAndSign" => Len(Split(out)) = 3
        /\ op = "DecryptAndVerify" => target = tokValue)

\* the encryptor has nothing to sign with
NoSigning(c) == c.Verifier.nil /\ c.SignKey = NilBytes

\* C6: in block-cipher mode every token EncryptAndSign returns is
\* Verifier.Generate of a token Encrypt returns; without a Verifier and a
\* SignKey, or with a verifier that is not fully configured, EncryptAndSign
\* returns an error and the empty string before anything is encrypted.
C6_NeverUnsigned ==
    (op = "EncryptAndSign" /\ crypt.Cipher \in {"", "aes-cbc"})
    => /\ err = "nil" =>
            /\ \E iv \in IVs : Encrypt(crypt, tokValue, iv).out = tokInner
            /\ out = Generate(WithDefaultVerifier(crypt).Verifier, tokInner).out
            /\ out # tokInner
       /\ (NoSigning(crypt) \/ ~FullyConfigured(WithDefaultVerifier(crypt).Verifier))
            => /\ err # "nil" /\ out = <<>>
               /\ \A i \in DOMAIN trace : trace[i] = "IsValid"

C6_Witness ==
    /\ op = "EncryptAndSign" /\ err = "nil"
    /\ crypt.Verifier.nil /\ crypt.SignKey = SignSecret
    /\ Len(tokValue) = BlockSize
    /\ Len(Split(out)) = 2 /\ Len(Split(tokInner)) = 2

\* the segments of an authenticated-encryption token hold what Seal returned
\* for the serialized value, the tag being its last TagSize bytes
SealedIn(seg) ==
    /\ Len(seg) = 3
    /\ Len(Base64Decode(seg[3]).bytes) = TagSize
    /\ Base64Decode(seg[1]).bytes \o Base64Decode(seg[3]).bytes
         = GcmSeal(TruncKey(crypt.Key), Base64Decode(seg[2]).bytes,
                   Serialize(DefaultSerializer(crypt).Serializer, tokValue).text)

FirstMissing(v) ==
    IF v.serializer = "nil" THEN "Serializer not set"
    ELSE IF v.hasher = "nil" THEN "Hasher not set"
    ELSE "Secret not set"

\* C8: on a verifier without a serializer, a hasher or a secret, Generate
\* and Verify return the error of the first one missing (serializer, then
\* hasher, then secret) before any other work; Generate returns the empty
\* string and Verify leaves the target unchanged.
C8_ChecksFirst ==
    (op \in {"Generate", "Verify"} /\ ~mv.nil /\ ~FullyConfigured(mv))
    => /\ err = FirstMissing(mv)
       /\ trace = <<"checkInit">>
       /\ out = <<>> /\ target = Untouched

C8_Witness ==
    /\ op = "Verify" /\ token = GarbageData
    /\ mv.serializer = "nil" /\ mv.hasher = "nil" /\ mv.secret = <<>>
    /\ err = "Serializer not set"

\* C9: on a fully configured verifier, Verify of the empty token and of a
\* token that does not split into exactly two segments returns an error,
\* leaves the target unchanged and computes no digest; "garbage data"
\* yields "Invalid signature - bad data".
C9_MalformedRejected ==
    (/\ op = "Verify" /\ FullyConfigured(mv)
     /\ (token = <<>> \/ Len(Split(token)) # 2))
    => /\ err # "nil" /\ target = Untouched
       /\ \A i \in DOMAIN trace : trace[i] # "DigestFor"
       /\ token = GarbageData => err = "Invalid signature - bad data"

C9_Witness ==
    /\ op = "Verify" /\ FullyConfigured(mv)
    /\ Len(Split(token)) = 3
    /\ err = "Invalid signature - bad data" /\ target = Untouched

\* the token is B, "--" and the digest of B, B being the padded base64 of
\* `text`; the digest is not the one of `text` itself
SignedBase64Of(seg, text) ==
    /\ Len(seg) = 2
    /\ Len(seg[1]) % 4 = 0
    /\ Base64Decode(seg[1]) = [bytes |-> text, ok |-> TRUE]
    /\ seg[2] = DigestFor(mv, seg[1])
    /\ text # seg[1] => seg[2] # DigestFor(mv, text)

\* C10: Generate(v) is B, "--", DigestFor(B) with B the padded base64 of
\* the serializer's text for v; the digest is computed over B, not over the
\* serialized text, and is what Verify recomputes from the data segment.
C10_TokenFormat ==
    (op = "Generate" /\ err = "nil")
    => SignedBase64Of(Split(out), Serialize(mv.serializer, tokValue).text)

C10_Witness ==
    /\ op = "Generate" /\ err = "nil"
    /\ mv.hasher = "sha256" /\ mv.serializer = "json"
    /\ Len(tokValue) = BlockSize
    /\ Len(Split(out)[2]) = 64

\* C11: a token returned without error has a fixed number of segments
\* between "--": 2 for a token of Encrypt, 3 for an authenticated-encryption
\* token, and 2 for a token of Generate or of EncryptAndSign, whose inner
\* token (with its own delimiters) lies inside the base64 data segment.
C11_SegmentCount ==
    /\ (op = "Encrypt" /\ err = "nil") => Len(Split(out)) = 2
    /\ (op = "aesGCMEncrypt" /\ err = "nil") => Len(Split(out)) = 3
    /\ (op = "Generate" /\ err = "nil") => Len(Split(out)) = 2
    /\ (op = "EncryptAndSign" /\ err = "nil")
          => /\ Len(Split(out)) = 2
             /\ Len(Split(tokInner)) = 2
             /\ Base64Decode(Split(out)[1]).bytes
                  = Serialize(WithDefaultVerifier(crypt).Verifier.serializer, tokInner).text

C11_Witness ==
    /\ op = "EncryptAndSign" /\ err = "nil"
    /\ WithDefaultVerifier(crypt).Verifier.serializer = "null"
    /\ Len(tokValue) = BlockSize + 1
    /\ Len(Split(tokInner)) = 2 /\ Len(Split(out)) = 2

\* what may follow the first 32 bytes of a longer key
KeyTails == {Drop(K64, MaxKeyLen), <<0>>}

\* the encryptors that differ from c by the key only, one key being the
\* first 32 bytes of the other
Twins(c) ==
    IF Len(c.Key) > MaxKeyLen THEN {[c EXCEPT !.Key = Take(c.Key, MaxKeyLen)]}
    ELSE IF Len(c.Key) = MaxKeyLen THEN {[c EXCEPT !.Key = c.Key \o t] : t \in KeyTails}
    ELSE {}

\* the last call gave what the same call on a twin encryptor gives
SameOnTwins ==
    \A c2 \in Twins(crypt) :
       /\ op = "Encrypt" =>
             \E iv \in IVs : Encrypt(c2, tokValue, iv).out = out
                              /\ Encrypt(c2, tokValue, iv).err = err
       /\ op = "aesGCMEncrypt" =>
             \E iv \in Nonces : aesGCMEncrypt(c2, tokValue, iv).out = out
                                 /\ aesGCMEncrypt(c2, tokValue, iv).err = err
       /\ op = "Decrypt" =>
             /\ Decrypt(c2, token, Untouched).target = target
             /\ Decrypt(c2, token, Untouched).err = err
       /\ op = "aesGCMDecrypt" =>
             /\ aesGCMDecrypt(c2, token, Untouched).target = target
             /\ aesGCMDecrypt(c2, token, Untouched).err = err

\* C12: of a key longer than 32 bytes the block-cipher and the
\* authenticated-encryption calls use the first 32 bytes only: with the same
\* plaintext and IV or nonce a long key and its 32-byte prefix give the same
\* token, a token made under one decrypts under the other, and no call
\* changes the Key field of the encryptor.
C12_KeyTruncation ==
    /\ []SameOnTwins
    /\ [][crypt'.Key = crypt.Key]_vars

C12_Witness ==
    /\ DecodedFrom("Decrypt", "Encrypt")
    /\ Len(crypt.Key) = 2 * MaxKeyLen
    /\ Len(tokValue) = BlockSize - 1
    /\ err = "nil" /\ target = tokValue
    /\ Decrypt([crypt EXCEPT !.Key = K32], token, Untouched).target = tokValue

\* C13: PKCS7Pad(d) is d followed by p bytes of value p, p between 1 and
\* 16, the result being the next multiple of 16 above Len(d): an input of
\* aligned length, the empty one included, gains a block of 16 bytes.
C13_PadAlwaysPads ==
    op = "PKCS7Pad"
    => \E p \in 1..BlockSize :
          /\ out = tokValue \o Rep(p, p)
          /\ Len(out) % BlockSize = 0

\* C14: PKCS7Unpad of a non-empty d with last byte N returns d without its
\* last N bytes when N is in 1..16, and d unchanged when N is 0 or above 16,
\* whatever the N bytes stripped are.
C14_UnpadRange ==
    (op = "PKCS7Unpad" /\ out # <<>>)
    => IF out[Len(out)] \in 1..BlockSize /\ out[Len(out)] <= Len(out)
       THEN err = "nil" /\ target = Take(out, Len(out) - out[Len(out)])
       ELSE out[Len(out)] \notin 1..BlockSize => (err = "nil" /\ target = out)

\* C15: PKCS7Unpad(PKCS7Pad(d)) is d for every d: the empty one, those of
\* aligned length, those whose last byte is between 0 and 16.
C15_UnpadPad ==
    (op = "PKCS7Unpad" /\ trace = <<"PKCS7Pad", "PKCS7Unpad">>)
    => (err = "nil" /\ target = tokValue)

\* data without its trailing bytes of value 0x10
WithoutTrailing16(data) ==
    Take(data, CHOOSE n \in 0..Len(data) :
                  /\ n = 0 \/ data[n] # 16
                  /\ \A m \in (n + 1)..Len(data) : data[m] = 16)

\* what block-cipher decrypt hands to the serializer `ser` once the
\* plaintext is unpadded
HandedOver(ser, unpadded) ==
    IF ser = "json" THEN WithoutTrailing16(unpadded) ELSE unpadded

\* the unpadded plaintext of a two-segment token under the key of crypt
UnpaddedPlaintext(seg) ==
    PKCS7Unpad(CBCDecrypt(TruncKey(crypt.Key), Base64Decode(seg[2]).bytes,
                          Base64Decode(seg[1]).bytes)).data

\* the last call is a block-cipher Decrypt that reached the serializer
Unserialized ==
    /\ op = "Decrypt" /\ trace # <<>> /\ trace[Len(trace)] = "Unserialize"

\* C16: block-cipher decrypt removes the trailing 0x10 bytes of the
\* unpadded plaintext if and only if the serializer is the JSON one; any
\* other serializer is handed the unpadded plaintext as it is.  So under
\* the JSON serializer a foreign token whose plaintext ends in a block of
\* sixteen 0x10 decrypts to the value of the text before that block.
C16_TrimOnlyJson ==
    /\ Unserialized
          => /\ Unserialize(crypt.Serializer,
                            HandedOver(crypt.Serializer, UnpaddedPlaintext(Split(token))),
                            Untouched).target = target
             /\ Unserialize(crypt.Serializer,
                            HandedOver(crypt.Serializer, UnpaddedPlaintext(Split(token))),
                            Untouched).err = err
    /\ (Unserialized /\ tokKind = "Rails" /\ crypt.Serializer = "null"
           /\ Len(JsonSerialize(tokValue).text) % BlockSize = 0)
          => target = RailsPad(JsonSerialize(tokValue).text)
    /\ (Unserialized /\ tokKind = "Rails" /\ crypt.Serializer = "json"
           /\ crypt.Key \in {K32, K64} /\ Serializable("json", tokValue))
          => (err = "nil" /\ target = tokValue)

C16_Witness ==
    /\ Unserialized /\ tokKind = "Rails" /\ crypt.Serializer = "json"
    /\ Len(JsonSerialize(tokValue).text) = BlockSize
    /\ Len(UnpaddedPlaintext(Split(token))) = 2 * BlockSize
    /\ err = "nil" /\ target = tokValue

\* the token is no well-formed block-cipher token: not two segments, a
\* segment that is no base64, a ciphertext of length zero or of a length
\* that is no multiple of 16
MalformedCbc(seg) ==
    \/ Len(seg) # 2
    \/ ~Base64Decode(seg[1]).ok
    \/ ~Base64Decode(seg[2]).ok
    \/ Len(Base64Decode(seg[1]).bytes) = 0
    \/ Len(Base64Decode(seg[1]).bytes) % BlockSize # 0

\* C17: block-cipher Decrypt of a token that does not split into two
\* segments, whose ciphertext or IV is no base64, or whose ciphertext has
\* length zero or no multiple of 16, returns an error, leaves the target
\* unchanged and neither decrypts nor unserializes anything.
C17_MalformedCbcRejected ==
    (/\ op = "Decrypt" /\ crypt.Cipher \in {"", "aes-cbc"}
     /\ MalformedCbc(Split(token)))
    => /\ err # "nil" /\ target = Untouched
       /\ \A i \in DOMAIN trace :
             trace[i] \notin {"CBCDecrypt", "PKCS7Unpad", "Unserialize"}

C17_Witness ==
    /\ op = "Decrypt" /\ tokKind = "forged"
    /\ Len(Split(token)) = 2
    /\ Len(Base64Decode(Split(token)[1]).bytes) = BlockSize + 1
    /\ err = "bad data, ciphertext is not a multiple of the block size"
    /\ target = Untouched

\* the token in flight is an authenticated-encryption token made under
\* another key, or one whose ciphertext, nonce or tag was altered
AlteredGcm ==
    tokKind \in {"aesGCMEncrypt/ciphertext", "aesGCMEncrypt/nonce",
                 "aesGCMEncrypt/tag", "aesGCMEncrypt/key"}

\* the token is not three segments of base64
MalformedGcm(seg) ==
    \/ Len(seg) # 3
    \/ \E n \in 1..3 : ~Base64Decode(seg[n]).ok

AuthenticationFailed == "cipher: message authentication failed"

\* C18: authenticated-encryption decrypt returns an error and leaves the
\* target unchanged for a token that is not three base64 segments, for a
\* token whose ciphertext, nonce or tag differs in a byte from what encrypt
\* produced, and for a token made under another key; a wrong key and
\* altered data yield the same error.
C18_GcmRejects ==
    op = "aesGCMDecrypt"
    => /\ (AlteredGcm \/ MalformedGcm(SplitN(token, 3)))
             => (err # "nil" /\ target = Untouched)
       /\ (AlteredGcm /\ ValidKeySize(TruncKey(crypt.Key)))
             => err = AuthenticationFailed

C18_Witness ==
    /\ op = "aesGCMDecrypt" /\ tokKind = "aesGCMEncrypt/key"
    /\ ValidKeySize(TruncKey(crypt.Key))
    /\ ~MalformedGcm(SplitN(token, 3))
    /\ err = AuthenticationFailed /\ target = Untouched

\* the iteration count a generator derives with: 1000 when none is set
Effective(iterations) == IF iterations = 0 THEN DefaultIterations ELSE iterations

\* C19: what KeyGenerator.Generate returns depends on the Secret, the salt,
\* the iteration count and keySize only, an unset count meaning 1000: a
\* repeated call returns the same bytes, the first call included, which
\* fills in the default; the bytes are those of a generator configured with
\* 1000 iterations; a configured count is the one derived with.
C19_GenerateDeterministic ==
    op = "KeyGenerator.Generate"
    => /\ out = Pbkdf2(kgCall.g.Secret, kgCall.salt,
                       Effective(kgCall.g.Iterations), kgCall.keySize)
       /\ Len(out) = kgCall.keySize
       /\ out = KeyGeneratorGenerate(kg, kgCall.salt, kgCall.keySize).out
       /\ kgCall.g.Iterations = 0
             => /\ kg.Iterations = DefaultIterations
                /\ out = KeyGeneratorGenerate(
                             [kgCall.g EXCEPT !.Iterations = DefaultIterations],
                             kgCall.salt, kgCall.keySize).out
       /\ kgCall.g.Iterations # DefaultIterations /\ kgCall.g.Iterations # 0
             => out # Pbkdf2(kgCall.g.Secret, kgCall.salt, DefaultIterations,
                             kgCall.keySize)

C19_Witness ==
    /\ op = "KeyGenerator.Generate"
    /\ kgCall.g.Iterations = 0 /\ kg.Iterations = DefaultIterations
    /\ kgCall.salt = <<97, 49>> /\ Len(out) = 16
    /\ out = KeyGeneratorGenerate(kg, kgCall.salt, kgCall.keySize).out

\* C20: after any earlier calls CacheGenerate(salt, n) returns the n bytes
\* Generate(salt, n) returns: the cache is keyed by the pair (salt, n), two
\* different pairs never sharing an entry.
C20_CacheGenerateIsGenerate ==
    op = "CacheGenerate"
    => /\ out = KeyGeneratorGenerate(kgCall.g, kgCall.salt, kgCall.keySize).out
       /\ Len(out) = kgCall.keySize

\* C21: on one KeyGenerator the first CacheGenerate(salt, n) runs the
\* derivation once and stores what it derived; a later call with the same
\* (salt, n) runs no derivation and returns the stored entry; and no call
\* removes or changes an entry the cache held before it.
C21_CacheWriteThrough ==
    op = "CacheGenerate"
    => /\ <<kgCall.salt, kgCall.keySize>> \notin kgCall.asked
             => /\ trace = <<"pbkdf2.Key">>
                /\ CacheKey(kgCall.salt, kgCall.keySize) \in kg.keys
                /\ kg.cache[CacheKey(kgCall.salt, kgCall.keySize)] = out
       /\ <<kgCall.salt, kgCall.keySize>> \in kgCall.asked
             => /\ trace = <<>>
                /\ CacheKey(kgCall.salt, kgCall.keySize) \in kgCall.g.keys
                /\ out = kgCall.g.cache[CacheKey(kgCall.salt, kgCall.keySize)]
       /\ \A k \in kgCall.g.keys : k \in kg.keys /\ kg.cache[k] = kgCall.g.cache[k]

\* two goroutines are about to touch the same memory, one of them writing
\* it, with nothing ordering the two
DataRace == \E p, q \in Goroutines : p # q /\ Conflict(p, q)

\* C22: concurrent CacheGenerate calls on one KeyGenerator are free of data
\* races: at no point are two goroutines about to touch g.cache, the map or
\* g.Iterations with one of them writing; the program is not ended by the
\* runtime; a key a call has stored stays in the cache; and a call that has
\* returned has returned the key derived for its own (salt, n).
C22_NoDataRace ==
    /\ ~DataRace
    /\ Running
    /\ \A p \in Goroutines :
          /\ calls[p].pc \in {"return", "done"}
                => CacheKey(calls[p].salt, calls[p].keySize) \in kg.keys
          /\ calls[p].pc = "done"
                => calls[p].out = Pbkdf2(kg.Secret, calls[p].salt,
                                         Effective(kg.Iterations), calls[p].keySize)

\* the call went past the signature check: Verify returned no error and
\* Decrypt was called
VerifyPassed == \E i \in 1..Len(trace) : trace[i] = "Decrypt"

\* the token in flight with its digest replaced by zeros, which the
\* signature check rejects
BadSignature == Split(token)[1] \o Delim \o Rep(Len(Split(token)[2]), 48)

\* C23: the error of DecryptAndVerify does not tell which half failed: when
\* a correctly signed token is rejected after the signature check (its
\* inner token malformed, not decrypting or not deserializing) the error is
\* the one returned for the same token with a bad signature.
C23_SameErrorForBothHalves ==
    op = "DecryptAndVerify" /\ err # "nil" /\ VerifyPassed
    => err = DecryptAndVerify(crypt, BadSignature, Untouched).err

\* the characters 0-9 and a-f
LowerHex == (48..57) \cup (97..102)

\* C24: what DigestFor returns is lower-case hexadecimal, twice the hash's
\* output size long, and depends on the text, the secret and the hasher
\* only, in every verifier state in which the call returns.
C24_DigestLowerHex ==
    op = "DigestFor" /\ err = "nil"
    => /\ \A i \in 1..Len(out) : out[i] \in LowerHex
       /\ mv.hasher \in Hashers /\ Len(out) = 2 * HashSize(mv.hasher)
       /\ \A s \in Serializers \cup {"nil"} :
             out = DigestFor([mv EXCEPT !.serializer = s], tokValue)

\* C25: Encrypt and Decrypt dispatch on the cipher name.  With no name, or
\* the block-cipher name, the call is the block-cipher one; with the
\* authenticated-encryption name it is the AEAD one; with any other name
\* Encrypt returns an error and an empty token, Decrypt an error and the
\* target as it was, and no cipher step is taken.
C25_Dispatch ==
    /\ op = "Encrypt"
          => CASE crypt.Cipher \in {"", "aes-cbc"}
                    -> \E iv \in IVs :
                          /\ out = aesCbcEncrypt(crypt, tokValue, iv).out
                          /\ err = aesCbcEncrypt(crypt, tokValue, iv).err
               [] crypt.Cipher = "aes-256-gcm"
                    -> \E iv \in Nonces :
                          /\ out = aesGCMEncrypt(crypt, tokValue, iv).out
                          /\ err = aesGCMEncrypt(crypt, tokValue, iv).err
               [] OTHER -> err = Unsupported /\ out = <<>> /\ trace = <<>>
    /\ op = "Decrypt"
          => CASE crypt.Cipher \in {"", "aes-cbc"}
                    -> /\ target = aesCbcDecrypt(crypt, token, Untouched).target
                       /\ err = aesCbcDecrypt(crypt, token, Untouched).err
               [] crypt.Cipher = "aes-256-gcm"
                    -> /\ target = aesGCMDecrypt(crypt, token, Untouched).target
                       /\ err = aesGCMDecrypt(crypt, token, Untouched).err
               [] OTHER -> err = Unsupported /\ target = Untouched /\ trace = <<>>

\* the steps of Decrypt: the call, the key schedule, the block decryption,
\* the unpadding
CipherSteps == {"Decrypt", "aes.NewCipher", "CBCDecrypt", "PKCS7Unpad"}

\* C26: in block-cipher mode DecryptAndVerify checks the signature of the
\* whole token first; the steps of Decrypt come after the digest comparison
\* and only when Verify returned no error; for a token the signature check
\* rejects no step of Decrypt runs and the target is as it was.
C26_VerifyBeforeDecrypt ==
    op = "DecryptAndVerify" /\ crypt.Cipher \in {"", "aes-cbc"}
    => /\ trace # <<>> /\ trace[1] = "Verify"
       /\ \A i \in 1..Len(trace) :
             trace[i] \in CipherSteps
             => /\ \E j \in 1..(i - 1) : trace[j] = "secureCompare"
                /\ Verify(crypt.Verifier, token, <<>>).err = "nil"
       /\ Verify(crypt.Verifier, token, <<>>).err # "nil"
             => /\ \A i \in 1..Len(trace) : trace[i] \notin CipherSteps
                /\ target = Untouched /\ err # "nil"

\* DecryptAndVerify was handed a signed token with an altered digest and
\* stopped at the digest comparison
C26_Witness ==
    /\ op = "DecryptAndVerify" /\ crypt.Cipher \in {"", "aes-cbc"}
    /\ tokKind = "EncryptAndSign/digest"
    /\ trace = <<"Verify", "checkInit", "Split", "DigestFor", "secureCompare">>
    /\ err = "Verification failed: Invalid signature - bad data"
    /\ target = Untouched

\* C27: no call changes the Key, the SignKey or the Cipher of the
\* encryptor, or replaces a Serializer or a Verifier that is set; an unset
\* Serializer stays unset or becomes the JSON one, an unset Verifier stays
\* unset or becomes the default one built from SignKey.
C27_FieldsKept ==
    [][/\ crypt'.Key = crypt.Key
       /\ crypt'.SignKey = crypt.SignKey
       /\ crypt'.Cipher = crypt.Cipher
       /\ crypt'.Serializer \in
             IF crypt.Serializer = "nil" THEN {"nil", "json"} ELSE {crypt.Serializer}
       /\ crypt'.Verifier \in
             IF crypt.Verifier.nil
             THEN {NilVerifier, DefaultVerifier(crypt.SignKey)}
             ELSE {crypt.Verifier}]_vars

\* an encryptor configured with a SignKey and neither Serializer nor
\* Verifier has decoded a token: both fields were filled in by its calls
C27_Witness ==
    /\ op = "DecryptAndVerify" /\ tokKind = "EncryptAndSign"
    /\ crypt.Serializer = "json"
    /\ crypt.SignKey = SignSecret /\ crypt.Verifier = DefaultVerifier(SignSecret)

\* C28: Verify returns an error and leaves the target as it was when the
\* digest of a token matches its data segment and the data segment is not
\* valid standard base64.
C28_InvalidBase64Rejected ==
    (/\ op = "Verify" /\ checkInit(mv) = "nil"
     /\ Len(Split(token)) = 2
     /\ secureCompare(Split(token)[2], DigestFor(mv, Split(token)[1]))
     /\ ~Base64Decode(Split(token)[1]).ok)
    => err # "nil" /\ target = Untouched

\* what a call ends with when it does not return: the run-time panics
Faults ==
    {NilDeref, NilCall,
     "panic: cipher.NewCBCDecrypter: IV length must equal block size",
     "panic: crypto/cipher: incorrect nonce length given to GCM",
     "panic: slice bounds out of range"}

\* C29: on an encryptor that has a serializer, decrypting returns, with an
\* error or without, for every token: no token makes the block-cipher
\* Decrypt or the authenticated-encryption decrypt panic, a token with an
\* IV that is not 16 bytes or a nonce that is not 12 bytes included.
C29_DecryptNeverFaults ==
    op \in {"Decrypt", "aesGCMDecrypt"} /\ crypt.Serializer # "nil"
    => err \notin Faults

\* C30: in block-cipher mode, DecryptAndVerify on an encryptor with neither
\* a Verifier nor a SignKey returns an error, as EncryptAndSign does, and
\* leaves the target as it was; it does not call into the verifier that is
\* not there.
C30_NoVerifierIsAnError ==
    (/\ op = "DecryptAndVerify" /\ crypt.Cipher \in {"", "aes-cbc"}
     /\ NoSigning(crypt))
    => /\ err # "nil" /\ err \notin Faults
       /\ target = Untouched

====
